---- MODULE Spec2Model ----
(***************************************************************************)
(* A model of yapapi.mid: the identity registry (ResourceMeta), the        *)
(* resource tree (Resource.add_child / child_aiter / set_no_more_children),*)
(* data loading (Resource.get_data) and the YagnaEventCollector.           *)
(*                                                                         *)
(* The program runs on one asyncio event loop: a handler runs atomically   *)
(* from one await to the next, so every action below is the code between   *)
(* two suspension points.                                                  *)
(***************************************************************************)
EXTENDS Integers, Sequences, FiniteSets, TLC

\* ------------------------------------------------------------------ bounds
NumIds == 2
MaxCalls == 3
NumIters == 1
MaxTreeCalls == 2
NumTasks == 2
MaxGetDataCalls == 3
MaxEvents == 3
MaxBatch == 2
MaxQueues == 2
MaxCollectorCalls == 3
MaxDemandSteps == 4
MaxCloseCalls == 3
MaxApprovalCalls == 3
MaxNesting == 3
MaxStrategyEvents == 4
NumScripts == 2
MaxScriptCalls == 4
MaxNegotiationCalls == 2

\* ------------------------------------------------------- program constants
\* The wrapped strategy's score and the derating factor (0.5, in percent).
BaseScore == 6
FactorPercent == 50
NumProviders == 2

\* ------------------------------------------------------------ the universe
\* The Resource subclasses of market.py; node._resources holds one dict per class.
Kinds == {"Demand", "Proposal", "Agreement"}
Ids == 1 .. NumIds
Keys == [kind : Kinds, id : Ids]

\* Python's None, as the data of a resource whose data was never loaded.
None == 0
\* Python's None, as a missing resource reference (_parent, _demand).
NoKey == [kind |-> "None", id |-> 0]
\* The snapshots the remote side can hand out (always different from None).
Snapshots == {1, 2}
Iters == 1 .. NumIters
Tasks == 1 .. NumTasks
\* The provider ids the strategy sees in events and offers.
Providers == 1 .. NumProviders
\* The scripts, by the id the global iterator gives them.
Scripts == 1 .. NumScripts
\* Two work contexts: one made with implicit_init = True, one with False.
Contexts == {"implicit", "explicit"}
implicit_init == [c \in Contexts |-> c = "implicit"]
\* The command a caller adds in this model (Script.run).
UserCommands == {"Run"}
\* The results the provider can report for a command (never 0).
Results == {1, 2}
KeyOf(k, i) == [kind |-> k, id |-> i]

VARIABLES
    resources,          \* node._resources[cls][id]: the serial of the registered instance, 0 = absent
    ninst,              \* how many instances of (cls, id) were ever constructed (object identity)
    event_bus,          \* every event passed to node.event_bus.emit, in order
    ret,                \* the outcome of the last call
    ncalls,             \* number of calls made so far (bounds the run)
    data,               \* Resource._data
    parent,             \* Resource._parent
    children,           \* Resource._children
    demand,             \* Proposal._demand
    events,             \* Resource._events
    no_more_children,   \* Resource._no_more_children.done()
    children_at_seal,   \* history: len(_children) when _no_more_children was set, -1 before
    it_pc,              \* child_aiter generator i: "none", "run" (at the loop head), "wait", "done"
    it_res,             \* the resource generator i iterates
    cnt,                \* child_aiter's cnt
    yielded,            \* history: what generator i has yielded so far
    stop_task,          \* child_aiter's stop_task.done()
    get_data_lock,      \* Resource._get_data_lock: the task holding it, 0 = unlocked
    lock_waiters,       \* the tasks suspended in _get_data_lock.acquire(), first come first
    gd_pc,              \* task t in get_data: "idle", "acquire", "fetch", "returned", "raised"
    gd_call,            \* task t's call: the resource, force, and old_data once it is read
    gd_fetch,           \* history: the remote exchange task t's call made (none, ok, failed)
    gd_overlap,         \* history: the pairs of tasks whose present calls ran concurrently
    col_task,           \* YagnaEventCollector._task: "none", or where _collect_events is suspended
    col_events,         \* YagnaEventCollector._events
    col_queues,         \* YagnaEventCollector._queues, each with what its consumer already got
    col_backoff,        \* history: the last poll came back empty and its delay has not elapsed
    event_collecting_task, \* Demand._event_collecting_task: "none", "running", "failed"
    close_pc,           \* unsubscribe / terminate on a resource: "idle", "remote", "returned", "raised"
    wfa_pc,             \* Agreement.wait_for_approval: "idle", "waiting", "returned", "raised"
    wfa_depth,          \* how many wait_for_approval calls are nested in the present call
    rejection_count,    \* the decay strategy's provider_id -> rejection count
    last_event,         \* history: the last event the strategy saw for each provider
    script_ids,         \* script_ids: how many ids the global iterator has handed out
    script_ctx,         \* Script._ctx, "none" for a script not constructed yet
    commands,           \* Script._commands: (command, future) pairs
    futures,            \* every future created so far: 0 while pending, else its result
    ctx_started,        \* WorkContext._started
    before_pc,          \* Script._before: 0 = not running, i = about to await commands[i].before
    handles,            \* history: the futures add() returned, in call order
    bootstrapped,       \* history: the scripts _before prepended Deploy and Start to
    before_order,       \* history: the scripts in the order their _before was first called
    neg_pc,             \* respond / create_agreement / reject on a proposal: where the call is
    autoclose           \* the resources registered with node.add_autoclose_resource

regVars == <<resources, ninst, event_bus>>
treeVars == <<parent, children, demand, events, no_more_children, children_at_seal>>
iterVars == <<it_pc, it_res, cnt, yielded, stop_task>>
gdVars == <<get_data_lock, lock_waiters, gd_pc, gd_call, gd_fetch, gd_overlap>>
vars == <<resources, ninst, event_bus, ret, ncalls, data, parent, children, demand,
          events, no_more_children, children_at_seal, it_pc, it_res, cnt, yielded, stop_task,
          get_data_lock, lock_waiters, gd_pc, gd_call, gd_fetch, gd_overlap,
          col_task, col_events, col_queues, col_backoff,
          event_collecting_task, close_pc, wfa_pc, wfa_depth, rejection_count, last_event,
          script_ids, script_ctx, commands, futures, ctx_started, before_pc, handles,
          bootstrapped, before_order, neg_pc, autoclose>>
colVars == <<col_task, col_events, col_queues, col_backoff>>
mktVars == <<event_collecting_task, close_pc, wfa_pc, wfa_depth>>
stratVars == <<rejection_count, last_event>>
negVars == <<neg_pc, autoclose>>
scrVars == <<script_ids, script_ctx, commands, futures, ctx_started, before_pc, handles,
            bootstrapped, before_order>>

\* ---------------------------------------------------------------- registry
\* NewResource(obj): the one event ResourceMeta.__call__ emits.
NewResource(k, inst) == [type |-> "NewResource", resource |-> k, inst |-> inst, old_data |-> None]

CallModes == {"none", "args", "kwargs"}

\* What the last call did: the operation, the resource it was called on, its
\* argument, and whether it returned ("ok", with the instance returned by a
\* constructor call) or raised.
Ret(op, k, arg, mode, outcome, inst) ==
    [op |-> op, key |-> k, arg |-> arg, mode |-> mode, outcome |-> outcome, inst |-> inst]
NoRet == Ret("none", NoKey, NoKey, "none", "none", 0)

\* ResourceMeta.__call__ without the registry lookup: every call constructs.
Mut_ResourceMeta_call(k, mode, d) ==
    /\ ninst' = [ninst EXCEPT ![k] = @ + 1]
    /\ resources' = [resources EXCEPT ![k] = ninst[k] + 1]
    /\ data' = [data EXCEPT ![k] = IF mode = "none" THEN None ELSE d]
    /\ parent' = [parent EXCEPT ![k] = NoKey]
    /\ children' = [children EXCEPT ![k] = <<>>]
    /\ demand' = [demand EXCEPT ![k] = NoKey]
    /\ events' = [events EXCEPT ![k] = <<>>]
    /\ no_more_children' = [no_more_children EXCEPT ![k] = FALSE]
    /\ children_at_seal' = [children_at_seal EXCEPT ![k] = -1]
    /\ event_bus' = Append(event_bus, NewResource(k, ninst[k] + 1))
    /\ ret' = Ret("call", k, NoKey, mode, "ok", ninst[k] + 1)

\* cls(node, id_, *args, **kwargs). mode says how data was passed: not at all,
\* positionally (args) or by keyword (kwargs); only args trips the sanity check.
ResourceMeta_call(k, mode, d) ==
    IF mode = "args" /\ resources[k] # 0
    THEN \* assert id_ not in node._resources[cls]
         /\ ret' = Ret("call", k, NoKey, mode, "AssertionError", 0)
         /\ UNCHANGED <<regVars, data, treeVars>>
    ELSE IF resources[k] = 0
    THEN /\ ninst' = [ninst EXCEPT ![k] = @ + 1]
         /\ resources' = [resources EXCEPT ![k] = ninst[k] + 1]
         \* Resource.__init__
         /\ data' = [data EXCEPT ![k] = IF mode = "none" THEN None ELSE d]
         /\ parent' = [parent EXCEPT ![k] = NoKey]
         /\ children' = [children EXCEPT ![k] = <<>>]
         /\ demand' = [demand EXCEPT ![k] = NoKey]
         /\ events' = [events EXCEPT ![k] = <<>>]
         /\ no_more_children' = [no_more_children EXCEPT ![k] = FALSE]
         /\ children_at_seal' = [children_at_seal EXCEPT ![k] = -1]
         /\ event_bus' = Append(event_bus, NewResource(k, ninst[k] + 1))
         /\ ret' = Ret("call", k, NoKey, mode, "ok", ninst[k] + 1)
    ELSE /\ ret' = Ret("call", k, NoKey, mode, "ok", resources[k])
         /\ UNCHANGED <<regVars, data, treeVars>>

\* A constructor call: GolemNode.demand/agreement (no data), Resource.get_all and
\* Proposal.from_proposal_event (data as a positional argument), or a direct call.
Construct ==
    /\ ncalls < MaxCalls
    /\ ncalls' = ncalls + 1
    /\ \E k \in Keys, mode \in CallModes, d \in Snapshots :
          ResourceMeta_call(k, mode, d)
    /\ UNCHANGED <<iterVars, gdVars, colVars, mktVars, stratVars, scrVars, negVars>>


\* -------------------------------------------------------------------- tree
\* The outcome of a parent setter: whether it returned, and the fields it left.
SetterResult(ok, par, dem) == [ok |-> ok, parent |-> par, demand |-> dem]

\* Resource.parent.setter: child.parent = p.
Resource_parent_setter(par, dem, c, p) ==
    IF par[c] # NoKey
    THEN SetterResult(FALSE, par, dem)                  \* assert self._parent is None
    ELSE SetterResult(TRUE, [par EXCEPT ![c] = p], dem)

\* Proposal.parent.setter that sets _parent only.
Mut_Proposal_parent_setter(par, dem, c, p) ==
    IF par[c] # NoKey
    THEN SetterResult(FALSE, par, dem)
    ELSE SetterResult(TRUE, [par EXCEPT ![c] = p], dem)

\* Proposal.parent.setter: sets _parent, then derives the demand from the parent;
\* an assertion that fails after the first assignment leaves _parent set.
Proposal_parent_setter(par, dem, c, p) ==
    IF par[c] # NoKey
    THEN SetterResult(FALSE, par, dem)                  \* assert self._parent is None
    ELSE LET par1 == [par EXCEPT ![c] = p] IN
         IF p.kind # "Demand" /\ (p.kind # "Proposal" \/ dem[p] = NoKey)
         THEN SetterResult(FALSE, par1, dem)            \* parent.demand raises
         ELSE LET d == IF p.kind = "Demand" THEN p ELSE dem[p] IN
              IF dem[c] # NoKey
              THEN SetterResult(dem[c] = d, par1, dem)  \* assert self._demand is demand
              ELSE SetterResult(TRUE, par1, [dem EXCEPT ![c] = d])

\* A parent setter without "assert self._parent is None".
Mut_parent_setter(par, dem, c, p) ==
    SetterResult(TRUE, [par EXCEPT ![c] = p], dem)

parent_setter(par, dem, c, p) ==
    IF c.kind = "Proposal"
    THEN Proposal_parent_setter(par, dem, c, p)
    ELSE Resource_parent_setter(par, dem, c, p)

\* add_child inserting the child at the front of _children.
Mut_add_child(p, c) ==
    LET r == parent_setter(parent, demand, c, p) IN
    /\ parent' = r.parent
    /\ demand' = r.demand
    /\ children' = IF r.ok THEN [children EXCEPT ![p] = <<c>> \o @] ELSE children
    /\ ret' = Ret("add_child", p, c, "none", IF r.ok THEN "ok" ELSE "AssertionError", 0)

\* add_child appending whether or not the parent setter returned.
Mut_add_child_unchecked(p, c) ==
    LET r == parent_setter(parent, demand, c, p) IN
    /\ parent' = r.parent
    /\ demand' = r.demand
    /\ children' = [children EXCEPT ![p] = Append(@, c)]
    /\ ret' = Ret("add_child", p, c, "none", IF r.ok THEN "ok" ELSE "AssertionError", 0)

\* Resource.add_child(child) called on p: child.parent = self, then the append.
add_child(p, c) ==
    LET r == parent_setter(parent, demand, c, p) IN
    /\ parent' = r.parent
    /\ demand' = r.demand
    /\ children' = IF r.ok THEN [children EXCEPT ![p] = Append(@, c)] ELSE children
    /\ ret' = Ret("add_child", p, c, "none", IF r.ok THEN "ok" ELSE "AssertionError", 0)

\* Resource.set_no_more_children.
set_no_more_children(r) ==
    IF ~no_more_children[r]
    THEN /\ no_more_children' = [no_more_children EXCEPT ![r] = TRUE]
         /\ children_at_seal' = [children_at_seal EXCEPT ![r] = Len(children[r])]
    ELSE UNCHANGED <<no_more_children, children_at_seal>>

\* The events of ya_market.models that Proposal.add_event tells apart.
YagnaEventTypes == {"ProposalEvent", "ProposalRejectedEvent"}

\* Resource.add_event, and Proposal.add_event on top of it.
add_event(r, ev) ==
    /\ events' = [events EXCEPT ![r] = Append(@, ev)]
    /\ IF r.kind = "Proposal" /\ ev = "ProposalRejectedEvent"
       THEN set_no_more_children(r)
       ELSE UNCHANGED <<no_more_children, children_at_seal>>

Registered == {k \in Keys : resources[k] # 0}

\* ------------------------------------------------- the calls of the tree API
AddChild ==
    /\ ncalls < MaxTreeCalls
    /\ ncalls' = ncalls + 1
    /\ \E p \in Registered, c \in Registered : add_child(p, c)
    /\ UNCHANGED <<regVars, data, events, no_more_children, children_at_seal, iterVars, gdVars, colVars, mktVars, stratVars, scrVars, negVars>>

SetNoMoreChildren ==
    /\ ncalls < MaxTreeCalls
    /\ ncalls' = ncalls + 1
    /\ \E r \in Registered :
          /\ set_no_more_children(r)
          /\ ret' = Ret("set_no_more_children", r, NoKey, "none", "ok", 0)
    /\ UNCHANGED <<regVars, data, parent, children, demand, events, iterVars, gdVars, colVars, mktVars, stratVars, scrVars, negVars>>

AddEvent ==
    /\ ncalls < MaxTreeCalls
    /\ ncalls' = ncalls + 1
    /\ \E r \in Registered, ev \in YagnaEventTypes :
          /\ add_event(r, ev)
          /\ ret' = Ret("add_event", r, NoKey, ev, "ok", 0)
    /\ UNCHANGED <<regVars, data, parent, children, demand, iterVars, gdVars, colVars, mktVars, stratVars, scrVars, negVars>>

\* ------------------------------------------------------------- child_aiter
\* The first __anext__ of r.child_aiter(): stop_task is created, cnt = 0.
IterStart(i) ==
    /\ it_pc[i] = "none"
    /\ \E r \in Registered : it_res' = [it_res EXCEPT ![i] = r]
    /\ it_pc' = [it_pc EXCEPT ![i] = "run"]
    /\ cnt' = [cnt EXCEPT ![i] = 0]
    /\ yielded' = [yielded EXCEPT ![i] = <<>>]
    /\ stop_task' = [stop_task EXCEPT ![i] = FALSE]
    /\ UNCHANGED <<regVars, ret, ncalls, data, treeVars, gdVars, colVars, mktVars, stratVars, scrVars, negVars>>

\* The loop head: yield the next child (the consumer pulls again from the same
\* place), or create wait_task and suspend in asyncio.wait.
IterNext(i) ==
    /\ it_pc[i] = "run"
    /\ IF cnt[i] < Len(children[it_res[i]])
       THEN /\ yielded' = [yielded EXCEPT ![i] = Append(@, children[it_res[i]][cnt[i] + 1])]
            /\ cnt' = [cnt EXCEPT ![i] = @ + 1]
            /\ UNCHANGED it_pc
       ELSE /\ it_pc' = [it_pc EXCEPT ![i] = "wait"]
            /\ UNCHANGED <<yielded, cnt>>
    /\ UNCHANGED <<regVars, ret, ncalls, data, treeVars, gdVars, colVars, it_res, stop_task, mktVars, stratVars, scrVars, negVars>>

\* stop_task, the task awaiting self._no_more_children, finishes once the future
\* is done and the event loop has run it.
StopTaskRun(i) ==
    /\ it_pc[i] \in {"run", "wait"}
    /\ ~stop_task[i]
    /\ no_more_children[it_res[i]]
    /\ stop_task' = [stop_task EXCEPT ![i] = TRUE]
    /\ UNCHANGED <<regVars, ret, ncalls, data, treeVars, gdVars, colVars, it_pc, it_res, cnt, yielded, mktVars, stratVars, scrVars, negVars>>

\* child_aiter without "if stop_task.done(): break".
Mut_IterWake(i) ==
    /\ it_pc[i] = "wait"
    /\ it_pc' = [it_pc EXCEPT ![i] = "run"]
    /\ UNCHANGED <<regVars, ret, ncalls, data, treeVars, gdVars, colVars, it_res, cnt, yielded, stop_task, mktVars, stratVars, scrVars, negVars>>

\* asyncio.wait returns (the sleep elapsed, or stop_task finished):
\* break when stop_task is done, else back to the loop head.
IterWake(i) ==
    /\ it_pc[i] = "wait"
    /\ it_pc' = [it_pc EXCEPT ![i] = IF stop_task[i] THEN "done" ELSE "run"]
    /\ UNCHANGED <<regVars, ret, ncalls, data, treeVars, gdVars, colVars, it_res, cnt, yielded, stop_task, mktVars, stratVars, scrVars, negVars>>


\* ---------------------------------------------------------------- get_data
\* ResourceDataChanged(self, old_data).
ResourceDataChanged(r, old) ==
    [type |-> "ResourceDataChanged", resource |-> r, inst |-> resources[r], old_data |-> old]

NoCall == [res |-> NoKey, force |-> FALSE, old_data |-> None]
NoFetch == [status |-> "none", value |-> None]

\* get_data without the lock.
Mut_LockFree(r) == TRUE

\* asyncio.Lock.acquire returns at once when the lock is free and nobody waits.
LockFree(r) == get_data_lock[r] = 0 /\ lock_waiters[r] = <<>>

\* What the remote side answers to a call: success, or an ApiException with
\* that status (not found, request timeout, gone, anything else).
Answers == {"ok", "404", "408", "410", "500"}

\* api_call_wrapper(ignore) around a call that raised ApiException(status): the
\* statuses of ignore are swallowed (the call returns None), not-found becomes
\* ResourceNotFound, every other error is raised unchanged.
api_call_wrapper(ignore, status) ==
    IF status \in ignore THEN "ok"
    ELSE IF status = "404" THEN "ResourceNotFound"
    ELSE "ApiException"

\* The body of "async with self._get_data_lock" up to its first await: read
\* old_data and start the remote call, or, with data loaded and no force, leave
\* the block (releasing the lock) and return self._data.
get_data_locked(t, r, force) ==
    IF data[r] = None \/ force
    THEN /\ get_data_lock' = [get_data_lock EXCEPT ![r] = t]
         /\ gd_call' = [gd_call EXCEPT ![t] = [res |-> r, force |-> force, old_data |-> data[r]]]
         /\ gd_pc' = [gd_pc EXCEPT ![t] = "fetch"]
         /\ ret' = ret
    ELSE /\ get_data_lock' = [get_data_lock EXCEPT ![r] = 0]
         /\ gd_call' = [gd_call EXCEPT ![t] = [res |-> r, force |-> force, old_data |-> None]]
         /\ gd_pc' = [gd_pc EXCEPT ![t] = "returned"]
         /\ ret' = Ret("get_data", r, NoKey, "none", "ok", data[r])

\* The event carrying the new data instead of old_data.
Mut_get_data_emit(bus, r, old, new) ==
    IF old # new THEN Append(bus, ResourceDataChanged(r, new)) ELSE bus

\* if old_data != self._data: emit(ResourceDataChanged(self, old_data)).
get_data_emit(bus, r, old, new) ==
    IF old # new THEN Append(bus, ResourceDataChanged(r, old)) ELSE bus

\* Task t calls r.get_data(force).
GetData(t) ==
    /\ gd_pc[t] \in {"idle", "returned", "raised"}
    /\ ncalls < MaxGetDataCalls
    /\ ncalls' = ncalls + 1
    /\ \E r \in Registered, force \in BOOLEAN :
          /\ gd_fetch' = [gd_fetch EXCEPT ![t] = NoFetch]
          /\ gd_overlap' = {pr \in gd_overlap : t \notin pr} \cup
                 {{t, u} : u \in {v \in Tasks \ {t} :
                                     gd_pc[v] \in {"acquire", "fetch"} /\ gd_call[v].res = r}}
          /\ IF LockFree(r)
             THEN /\ get_data_locked(t, r, force)
                  /\ UNCHANGED lock_waiters
             ELSE /\ lock_waiters' = [lock_waiters EXCEPT ![r] = Append(@, t)]
                  /\ gd_call' = [gd_call EXCEPT ![t] = [res |-> r, force |-> force, old_data |-> None]]
                  /\ gd_pc' = [gd_pc EXCEPT ![t] = "acquire"]
                  /\ UNCHANGED <<get_data_lock, ret>>
    /\ UNCHANGED <<regVars, data, treeVars, iterVars, colVars, mktVars, stratVars, scrVars, negVars>>

\* The lock was released and t is the first waiter: t gets the lock.
GetDataAcquire(t) ==
    /\ gd_pc[t] = "acquire"
    /\ get_data_lock[gd_call[t].res] = 0
    /\ lock_waiters[gd_call[t].res] # <<>>
    /\ Head(lock_waiters[gd_call[t].res]) = t
    /\ lock_waiters' = [lock_waiters EXCEPT ![gd_call[t].res] = Tail(@)]
    /\ get_data_locked(t, gd_call[t].res, gd_call[t].force)
    /\ UNCHANGED <<regVars, ncalls, data, treeVars, iterVars, colVars, gd_fetch, gd_overlap, mktVars, stratVars, scrVars, negVars>>

\* await self._get_data() returns snapshot d: store it, emit on a change, leave
\* the block and return self._data.
GetDataFetched(t) ==
    /\ gd_pc[t] = "fetch"
    /\ \E d \in Snapshots :
          LET r == gd_call[t].res IN
          /\ data' = [data EXCEPT ![r] = d]
          /\ event_bus' = get_data_emit(event_bus, r, gd_call[t].old_data, d)
          /\ get_data_lock' = [get_data_lock EXCEPT ![r] = 0]
          /\ gd_fetch' = [gd_fetch EXCEPT ![t] = [status |-> "ok", value |-> d]]
          /\ ret' = Ret("get_data", r, NoKey, "none", "ok", d)
    /\ gd_pc' = [gd_pc EXCEPT ![t] = "returned"]
    /\ UNCHANGED <<resources, ninst, ncalls, treeVars, iterVars, colVars, lock_waiters, gd_call, gd_overlap, mktVars, stratVars, scrVars, negVars>>

\* GetDataFailed keeping the lock: the block is not left.
Mut_GetDataFailed(t) ==
    /\ gd_pc[t] = "fetch"
    /\ gd_fetch' = [gd_fetch EXCEPT ![t] = [status |-> "failed", value |-> None]]
    /\ gd_pc' = [gd_pc EXCEPT ![t] = "raised"]
    /\ ret' = Ret("get_data", gd_call[t].res, NoKey, "none", "ApiException", None)
    /\ UNCHANGED <<regVars, ncalls, data, treeVars, iterVars, colVars, lock_waiters, gd_call,
                   gd_overlap, mktVars, stratVars, negVars, scrVars, get_data_lock>>

\* await self._get_data() raises (an ApiException, or ResourceNotFound): the
\* assignment does not happen, the block is left and the exception propagates.
\* get_data has no except clause, so the outcome "ApiException" stands for
\* whichever exception it is.
GetDataFailed(t) ==
    /\ gd_pc[t] = "fetch"
    /\ get_data_lock' = [get_data_lock EXCEPT ![gd_call[t].res] = 0]
    /\ gd_fetch' = [gd_fetch EXCEPT ![t] = [status |-> "failed", value |-> None]]
    /\ gd_pc' = [gd_pc EXCEPT ![t] = "raised"]
    /\ ret' = Ret("get_data", gd_call[t].res, NoKey, "none", "ApiException", None)
    /\ UNCHANGED <<regVars, ncalls, data, treeVars, iterVars, colVars, lock_waiters, gd_call, gd_overlap, mktVars, stratVars, scrVars, negVars>>


\* ----------------------------------------------------- YagnaEventCollector
\* The remote events are told apart by their arrival number.
Batch(n) == [j \in 1 .. n |-> Len(col_events) + j]

\* An asyncio.Queue made by event_queue: its contents (items) and, as history,
\* the events its consumer has taken out (got), whether it asked for past events
\* and how many events were buffered when it was made.
NewQueue(past) ==
    [past |-> past, since |-> Len(col_events), got |-> <<>>,
     items |-> IF past THEN col_events ELSE <<>>]

\* The fan-out reaching the first queue only.
Mut_put_all(queues, batch) ==
    [q \in 1 .. Len(queues) |->
        IF q = 1 THEN [queues[q] EXCEPT !.items = @ \o batch] ELSE queues[q]]

\* for event in events: for queue in self._queues: queue.put_nowait(event)
put_all(queues, batch) ==
    [q \in 1 .. Len(queues) |-> [queues[q] EXCEPT !.items = @ \o batch]]

\* YagnaEventCollector.start.
CollectorStart ==
    /\ ncalls < MaxCollectorCalls
    /\ ncalls' = ncalls + 1
    /\ IF col_task = "none"
       THEN /\ col_task' = "polling"
            /\ col_backoff' = FALSE
            /\ ret' = Ret("start", NoKey, NoKey, "none", "ok", 0)
       ELSE /\ ret' = Ret("start", NoKey, NoKey, "none", "AssertionError", 0)
            /\ UNCHANGED <<col_task, col_backoff>>
    /\ UNCHANGED <<regVars, data, treeVars, iterVars, gdVars, col_events, col_queues, mktVars, stratVars, scrVars, negVars>>

\* stop() forgetting the task without cancelling it.
Mut_CollectorStop ==
    /\ ncalls < MaxCollectorCalls
    /\ ncalls' = ncalls + 1
    /\ ret' = Ret("stop", NoKey, NoKey, "none", "ok", 0)
    /\ UNCHANGED <<regVars, data, treeVars, iterVars, gdVars, colVars, mktVars, stratVars, scrVars, negVars>>

\* YagnaEventCollector.stop: the task is cancelled where it is suspended.
CollectorStop ==
    /\ ncalls < MaxCollectorCalls
    /\ ncalls' = ncalls + 1
    /\ col_task' = "none"
    /\ col_backoff' = FALSE
    /\ ret' = Ret("stop", NoKey, NoKey, "none", "ok", 0)
    /\ UNCHANGED <<regVars, data, treeVars, iterVars, gdVars, col_events, col_queues, mktVars, stratVars, scrVars, negVars>>

\* _collect_events polling again at once whatever the poll returned.
Mut_CollectEvents ==
    /\ col_task = "polling"
    /\ \E n \in 0 .. MaxBatch :
          /\ Len(col_events) + n <= MaxEvents
          /\ col_events' = col_events \o Batch(n)
          /\ col_queues' = put_all(col_queues, Batch(n))
          /\ col_task' = "polling"
          /\ col_backoff' = (n = 0)
    /\ UNCHANGED <<regVars, ret, ncalls, data, treeVars, iterVars, gdVars, mktVars, stratVars, scrVars, negVars>>

\* _collect_events: await self.func(...) returns a batch of n events; they are
\* buffered and put into every queue; an empty batch is followed by the sleep.
CollectEvents ==
    /\ col_task = "polling"
    /\ \E n \in 0 .. MaxBatch :
          /\ Len(col_events) + n <= MaxEvents
          /\ col_events' = col_events \o Batch(n)
          /\ col_queues' = put_all(col_queues, Batch(n))
          /\ col_task' = IF n = 0 THEN "sleeping" ELSE "polling"
          /\ col_backoff' = (n = 0)
    /\ UNCHANGED <<regVars, ret, ncalls, data, treeVars, iterVars, gdVars, mktVars, stratVars, scrVars, negVars>>

\* _collect_events: asyncio.sleep(1) is over, the next poll is issued.
CollectorSleepDone ==
    /\ col_task = "sleeping"
    /\ col_task' = "polling"
    /\ col_backoff' = FALSE
    /\ UNCHANGED <<regVars, ret, ncalls, data, treeVars, iterVars, gdVars, col_events, col_queues, mktVars, stratVars, scrVars, negVars>>

\* event_queue without the replay of self._events.
Mut_event_queue(past) ==
    col_queues' = Append(col_queues, [NewQueue(past) EXCEPT !.items = <<>>])

\* YagnaEventCollector.event_queue(past_events).
event_queue(past) ==
    col_queues' = Append(col_queues, NewQueue(past))

EventQueue ==
    /\ Len(col_queues) < MaxQueues
    /\ \E past \in BOOLEAN : event_queue(past)
    /\ ret' = Ret("event_queue", NoKey, NoKey, "none", "ok", Len(col_queues) + 1)
    /\ UNCHANGED <<regVars, ncalls, data, treeVars, iterVars, gdVars, col_task, col_events, col_backoff, mktVars, stratVars, scrVars, negVars>>

\* A consumer's await queue.get() returns the oldest item of queue q.
QueueGet(q) ==
    /\ col_queues[q].items # <<>>
    /\ col_queues' = [col_queues EXCEPT ![q] =
                         [@ EXCEPT !.got = Append(@, Head(col_queues[q].items)),
                                   !.items = Tail(@)]]
    /\ UNCHANGED <<regVars, ret, ncalls, data, treeVars, iterVars, gdVars, col_task, col_events, col_backoff, mktVars, stratVars, scrVars, negVars>>

\* ------------------------------------------------------------------ market
\* ResourceClosed(self).
ResourceClosed(k) ==
    [type |-> "ResourceClosed", resource |-> k, inst |-> resources[k], old_data |-> None]

Demands == {k \in Registered : k.kind = "Demand"}
Agreements == {k \in Registered : k.kind = "Agreement"}

\* Demand.start_collecting_events.
StartCollecting ==
    /\ ncalls < MaxDemandSteps
    /\ ncalls' = ncalls + 1
    /\ \E d \in Demands :
          IF event_collecting_task[d] = "none"
          THEN /\ event_collecting_task' = [event_collecting_task EXCEPT ![d] = "running"]
               /\ ret' = Ret("start_collecting_events", d, NoKey, "none", "ok", 0)
          ELSE /\ ret' = Ret("start_collecting_events", d, NoKey, "none", "AssertionError", 0)
               /\ UNCHANGED event_collecting_task
    /\ UNCHANGED <<regVars, data, treeVars, iterVars, gdVars, colVars, close_pc, wfa_pc,
                   wfa_depth, stratVars, scrVars, negVars>>

\* f with the fields of the resources constructed in this step at their
\* Resource.__init__ value.
Constructed(f, new, v) == [k \in Keys |-> IF k \in new THEN v ELSE f[k]]

\* _get_proposal_parent answering the Demand for every proposal.
Mut_get_proposal_parent(d, pk, state, qk) ==
    [key |-> d, new |-> {}, ok |-> TRUE]

\* Demand._get_proposal_parent for the proposal pk just made from an event with
\* that state and prev_proposal_id qk: the parent, the resources the lookup
\* registers, and whether the sanity check on the parent passes.
get_proposal_parent(d, pk, state, qk) ==
    IF state = "Initial"
    THEN [key |-> d, new |-> {}, ok |-> TRUE]
    ELSE [key |-> qk,
          new |-> IF qk # pk /\ resources[qk] = 0 THEN {qk} ELSE {},
          ok |-> qk # pk /\ resources[qk] # 0 /\ parent[qk] # NoKey]

\* (ret records the event: the proposal, its prev_proposal_id when it is not
\* Initial, its state, and the id of the Demand whose task processed it.)
\* _process_yagna_events taking a ProposalEvent off its queue:
\* Proposal.from_proposal_event, _get_proposal_parent, parent.add_child. The
\* events come from the collector's queue; here the remote side sends any event.
\* An exception ends the task (Demand._event_collecting_task stays set).
ProposalEvent(d, p, state, prev, snap) ==
    LET pk == KeyOf("Proposal", p)
        qk == KeyOf("Proposal", prev)
    IN
    IF resources[pk] # 0
    THEN \* Proposal(node, id, data): assert id_ not in node._resources[cls]
         /\ ret' = Ret("ProposalEvent", pk, IF state = "Initial" THEN NoKey ELSE qk, state,
                       "AssertionError", d.id)
         /\ event_collecting_task' = [event_collecting_task EXCEPT ![d] = "failed"]
         /\ UNCHANGED <<regVars, data, treeVars>>
    ELSE LET par == get_proposal_parent(d, pk, state, qk)
             new == {pk} \cup par.new
             parent0 == Constructed(parent, new, NoKey)
             demand0 == Constructed(demand, new, NoKey)
             children0 == Constructed(children, new, <<>>)
             r == parent_setter(parent0, demand0, pk, par.key)
             attached == par.ok /\ r.ok
         IN
         /\ resources' = [k \in Keys |-> IF k \in new THEN ninst[k] + 1 ELSE resources[k]]
         /\ ninst' = [k \in Keys |-> IF k \in new THEN ninst[k] + 1 ELSE ninst[k]]
         /\ event_bus' = event_bus \o <<NewResource(pk, ninst[pk] + 1)>>
                             \o (IF par.new # {} THEN <<NewResource(qk, ninst[qk] + 1)>> ELSE <<>>)
         /\ data' = [Constructed(data, new, None) EXCEPT ![pk] = snap]
         /\ events' = [Constructed(events, new, <<>>) EXCEPT ![pk] = <<"ProposalEvent">>]
         /\ no_more_children' = Constructed(no_more_children, new, FALSE)
         /\ children_at_seal' = Constructed(children_at_seal, new, -1)
         /\ parent' = IF par.ok THEN r.parent ELSE parent0
         /\ demand' = IF par.ok THEN r.demand ELSE demand0
         /\ children' = IF attached THEN [children0 EXCEPT ![par.key] = Append(@, pk)]
                        ELSE children0
         /\ ret' = Ret("ProposalEvent", pk, IF state = "Initial" THEN NoKey ELSE qk, state,
                       IF attached THEN "ok" ELSE "AssertionError", d.id)
         /\ event_collecting_task' =
                [event_collecting_task EXCEPT ![d] = IF attached THEN "running" ELSE "failed"]

\* _process_yagna_events taking a ProposalRejectedEvent off its queue:
\* Demand.proposal(id) (which registers an unknown proposal and sets its
\* demand), then Proposal.add_event.
ProposalRejectedEvent(d, p) ==
    LET pk == KeyOf("Proposal", p)
        new == IF resources[pk] = 0 THEN {pk} ELSE {}
    IN
    /\ resources' = [k \in Keys |-> IF k \in new THEN ninst[k] + 1 ELSE resources[k]]
    /\ ninst' = [k \in Keys |-> IF k \in new THEN ninst[k] + 1 ELSE ninst[k]]
    /\ event_bus' = event_bus \o (IF new # {} THEN <<NewResource(pk, ninst[pk] + 1)>> ELSE <<>>)
    /\ data' = Constructed(data, new, None)
    /\ parent' = Constructed(parent, new, NoKey)
    /\ children' = Constructed(children, new, <<>>)
    /\ demand' = [Constructed(demand, new, NoKey) EXCEPT ![pk] = IF @ = NoKey THEN d ELSE @]
    /\ add_event(pk, "ProposalRejectedEvent")
    /\ ret' = Ret("ProposalRejectedEvent", pk, NoKey, "none", "ok", d.id)
    /\ UNCHANGED event_collecting_task

ProposalStates == {"Initial", "Draft"}

ProcessProposalEvent ==
    /\ ncalls < MaxDemandSteps
    /\ ncalls' = ncalls + 1
    /\ \E d \in Demands :
          /\ event_collecting_task[d] = "running"
          /\ \E p \in Ids, state \in ProposalStates, prev \in Ids, snap \in Snapshots :
                ProposalEvent(d, p, state, prev, snap)
    /\ UNCHANGED <<iterVars, gdVars, colVars, close_pc, wfa_pc, wfa_depth, stratVars, scrVars, negVars>>

ProcessProposalRejectedEvent ==
    /\ ncalls < MaxDemandSteps
    /\ ncalls' = ncalls + 1
    /\ \E d \in Demands :
          /\ event_collecting_task[d] = "running"
          /\ \E p \in Ids : ProposalRejectedEvent(d, p)
    /\ UNCHANGED <<iterVars, gdVars, colVars, close_pc, wfa_pc, wfa_depth, stratVars, scrVars, negVars>>

\* unsubscribe issuing the remote call while the event task keeps running.
Mut_unsubscribe(d) ==
    /\ set_no_more_children(d)
    /\ close_pc' = [close_pc EXCEPT ![d] = "remote"]
    /\ UNCHANGED event_collecting_task

\* Demand.unsubscribe up to its remote call: set_no_more_children,
\* stop_collecting_events (the task is cancelled where it waits for its queue),
\* then api.unsubscribe_demand is awaited.
unsubscribe(d) ==
    /\ set_no_more_children(d)
    /\ event_collecting_task' = [event_collecting_task EXCEPT ![d] = "none"]
    /\ close_pc' = [close_pc EXCEPT ![d] = "remote"]

Unsubscribe ==
    /\ ncalls < MaxDemandSteps
    /\ ncalls' = ncalls + 1
    /\ \E d \in Demands :
          /\ close_pc[d] # "remote"
          /\ unsubscribe(d)
          /\ ret' = Ret("unsubscribe", d, NoKey, "none", "pending", 0)
    /\ UNCHANGED <<regVars, data, parent, children, demand, events, iterVars, gdVars,
                   colVars, wfa_pc, wfa_depth, stratVars, scrVars, negVars>>

\* The rest of a closing call once the remote side has answered: ResourceClosed
\* is emitted after a successful call; an ApiException leaves the function at
\* the await and is dealt with by api_call_wrapper(ignore).
close_done(k, op, ignore, answer) ==
    LET outcome == IF answer = "ok" THEN "ok" ELSE api_call_wrapper(ignore, answer) IN
    /\ event_bus' = IF answer = "ok" THEN Append(event_bus, ResourceClosed(k)) ELSE event_bus
    /\ close_pc' = [close_pc EXCEPT ![k] = IF outcome = "ok" THEN "returned" ELSE "raised"]
    /\ ret' = Ret(op, k, NoKey, answer, outcome, 0)

\* api.unsubscribe_demand answers; unsubscribe is wrapped with ignore=[404, 410].
UnsubscribeDone ==
    /\ \E d \in Demands :
          /\ close_pc[d] = "remote"
          /\ \E answer \in Answers : close_done(d, "unsubscribe", {"404", "410"}, answer)
    /\ UNCHANGED <<resources, ninst, ncalls, data, treeVars, iterVars, gdVars, colVars,
                   event_collecting_task, wfa_pc, wfa_depth, stratVars, scrVars, negVars>>

\* Agreement.terminate up to its remote call: api.terminate_agreement is awaited
\* at once.
Terminate ==
    /\ ncalls < MaxCloseCalls
    /\ ncalls' = ncalls + 1
    /\ \E a \in Agreements :
          /\ close_pc[a] # "remote"
          /\ close_pc' = [close_pc EXCEPT ![a] = "remote"]
          /\ ret' = Ret("terminate", a, NoKey, "none", "pending", 0)
    /\ UNCHANGED <<regVars, data, treeVars, iterVars, gdVars, colVars, event_collecting_task,
                   wfa_pc, wfa_depth, stratVars, scrVars, negVars>>

\* api.terminate_agreement answers; terminate is wrapped with no status ignored.
TerminateDone ==
    /\ \E a \in Agreements :
          /\ close_pc[a] = "remote"
          /\ \E answer \in Answers : close_done(a, "terminate", {}, answer)
    /\ UNCHANGED <<resources, ninst, ncalls, data, treeVars, iterVars, gdVars, colVars,
                   event_collecting_task, wfa_pc, wfa_depth, stratVars, scrVars, negVars>>

\* One answer to the remote wait of Agreement.wait_for_approval: True on
\* approval, False on gone; on a request timeout the method awaits itself again
\* from inside its except block, one coroutine deeper, which the interpreter
\* refuses with RecursionError once the nesting reaches its recursion limit
\* (MaxNesting stands for that limit); any other ApiException goes to
\* api_call_wrapper().
wait_for_approval(a, answer) ==
    LET retry == answer = "408" /\ wfa_depth[a] < MaxNesting
        outcome == CASE answer = "ok" -> "True"
                     [] answer = "410" -> "False"
                     [] answer = "408" -> IF retry THEN "pending" ELSE "RecursionError"
                     [] OTHER -> api_call_wrapper({}, answer)
    IN
    /\ wfa_pc' = [wfa_pc EXCEPT ![a] = CASE retry -> "waiting"
                                        [] outcome \in {"True", "False"} -> "returned"
                                        [] OTHER -> "raised"]
    /\ wfa_depth' = [wfa_depth EXCEPT ![a] = IF retry THEN @ + 1 ELSE 0]
    /\ ret' = Ret("wait_for_approval", a, NoKey, answer, outcome,
                  IF retry THEN wfa_depth[a] + 1 ELSE wfa_depth[a])

\* A call of Agreement.wait_for_approval, up to its remote wait.
WaitForApproval ==
    /\ ncalls < MaxApprovalCalls
    /\ ncalls' = ncalls + 1
    /\ \E a \in Agreements :
          /\ wfa_pc[a] # "waiting"
          /\ wfa_pc' = [wfa_pc EXCEPT ![a] = "waiting"]
          /\ wfa_depth' = [wfa_depth EXCEPT ![a] = 1]
          /\ ret' = Ret("wait_for_approval", a, NoKey, "none", "pending", 1)
    /\ UNCHANGED <<regVars, data, treeVars, iterVars, gdVars, colVars, event_collecting_task,
                   close_pc, stratVars, scrVars, negVars>>

\* api.wait_for_approval answers.
WaitAnswer ==
    /\ \E a \in Agreements :
          /\ wfa_pc[a] = "waiting"
          /\ \E answer \in Answers : wait_for_approval(a, answer)
    /\ UNCHANGED <<regVars, ncalls, data, treeVars, iterVars, gdVars, colVars,
                   event_collecting_task, close_pc, stratVars, scrVars, negVars>>

\* ------------------------------------------------------- the decay strategy
StrategyEvents == {"AgreementRejected", "AgreementConfirmed"}
ProviderKey(p) == [kind |-> "Provider", id |-> p]

\* on_event where a confirmation takes back one rejection only.
Mut_on_event(count, ev, p) ==
    CASE ev = "AgreementRejected" -> [count EXCEPT ![p] = @ + 1]
      [] ev = "AgreementConfirmed" -> [count EXCEPT ![p] = IF @ > 0 THEN @ - 1 ELSE 0]

\* on_event: a rejection increments the provider's counter, a confirmation
\* resets it.
on_event(count, ev, p) ==
    CASE ev = "AgreementRejected" -> [count EXCEPT ![p] = @ + 1]
      [] ev = "AgreementConfirmed" -> [count EXCEPT ![p] = 0]

\* score_offer for an offer of provider p: the wrapped strategy's score, times
\* the factor when the provider's counter is not zero.
score_offer(count, p) ==
    IF count[p] > 0 THEN (BaseScore * FactorPercent) \div 100 ELSE BaseScore

OnEvent ==
    /\ ncalls < MaxStrategyEvents
    /\ ncalls' = ncalls + 1
    /\ \E ev \in StrategyEvents, p \in Providers :
          /\ rejection_count' = on_event(rejection_count, ev, p)
          /\ last_event' = [last_event EXCEPT ![p] = ev]
          /\ ret' = Ret("on_event", ProviderKey(p), NoKey, ev, "ok", 0)
    /\ UNCHANGED <<regVars, data, treeVars, iterVars, gdVars, colVars, mktVars, scrVars, negVars>>

ScoreOffer ==
    /\ \E p \in Providers :
          ret' = Ret("score_offer", ProviderKey(p), NoKey, "none", "ok",
                     score_offer(rejection_count, p))
    /\ UNCHANGED <<regVars, ncalls, data, treeVars, iterVars, gdVars, colVars, mktVars, stratVars, scrVars, negVars>>

\* -------------------------------------------------------------- negotiation
Proposals == {k \in Registered : k.kind = "Proposal"}
NotRunning == {"idle", "returned", "raised"}

\* Demand.proposal(id): the registered Proposal or a new one; its demand is
\* set if it has none.
ProposalLookup ==
    /\ ncalls < MaxNegotiationCalls
    /\ ncalls' = ncalls + 1
    /\ \E d \in Demands, p \in Ids :
          LET pk == KeyOf("Proposal", p)
              new == IF resources[pk] = 0 THEN {pk} ELSE {}
          IN
          /\ resources' = [k \in Keys |-> IF k \in new THEN ninst[k] + 1 ELSE resources[k]]
          /\ ninst' = [k \in Keys |-> IF k \in new THEN ninst[k] + 1 ELSE ninst[k]]
          /\ event_bus' = event_bus \o (IF new # {} THEN <<NewResource(pk, ninst[pk] + 1)>> ELSE <<>>)
          /\ data' = Constructed(data, new, None)
          /\ parent' = Constructed(parent, new, NoKey)
          /\ children' = Constructed(children, new, <<>>)
          /\ events' = Constructed(events, new, <<>>)
          /\ no_more_children' = Constructed(no_more_children, new, FALSE)
          /\ children_at_seal' = Constructed(children_at_seal, new, -1)
          /\ demand' = [Constructed(demand, new, NoKey) EXCEPT ![pk] = IF @ = NoKey THEN d ELSE @]
          /\ ret' = Ret("proposal", pk, d, "none", "ok", ninst'[pk])
    /\ UNCHANGED <<iterVars, gdVars, colVars, mktVars, stratVars, scrVars, negVars>>

\* node.add_autoclose_resource(resource): the node keeps the resource for closing
\* at teardown.
add_autoclose_resource(rs, k) == rs \cup {k}

\* attach_new without self.add_child(new).
Mut_attach_new(p, nk, op, auto) ==
    LET new == IF resources[nk] = 0 THEN {nk} ELSE {} IN
    /\ resources' = [k \in Keys |-> IF k \in new THEN ninst[k] + 1 ELSE resources[k]]
    /\ ninst' = [k \in Keys |-> IF k \in new THEN ninst[k] + 1 ELSE ninst[k]]
    /\ event_bus' = event_bus \o (IF new # {} THEN <<NewResource(nk, ninst[nk] + 1)>> ELSE <<>>)
    /\ data' = Constructed(data, new, None)
    /\ events' = Constructed(events, new, <<>>)
    /\ no_more_children' = Constructed(no_more_children, new, FALSE)
    /\ children_at_seal' = Constructed(children_at_seal, new, -1)
    /\ parent' = Constructed(parent, new, NoKey)
    /\ demand' = Constructed(demand, new, NoKey)
    /\ children' = Constructed(children, new, <<>>)
    /\ autoclose' = IF auto THEN add_autoclose_resource(autoclose, nk) ELSE autoclose
    /\ neg_pc' = [neg_pc EXCEPT ![p] = "returned"]
    /\ ret' = Ret(op, p, nk, "ok", "ok", 0)

\* The end of respond and create_agreement once the remote side has returned
\* the id of the new resource: cls(node, id) (the registered resource, or a new
\* one), self.add_child(new), and for create_agreement with autoclose the
\* registration for closing. An assertion of the parent setter ends the call.
attach_new(p, nk, op, auto) ==
    LET new == IF resources[nk] = 0 THEN {nk} ELSE {}
        parent0 == Constructed(parent, new, NoKey)
        demand0 == Constructed(demand, new, NoKey)
        children0 == Constructed(children, new, <<>>)
        r == parent_setter(parent0, demand0, nk, p)
    IN
    /\ resources' = [k \in Keys |-> IF k \in new THEN ninst[k] + 1 ELSE resources[k]]
    /\ ninst' = [k \in Keys |-> IF k \in new THEN ninst[k] + 1 ELSE ninst[k]]
    /\ event_bus' = event_bus \o (IF new # {} THEN <<NewResource(nk, ninst[nk] + 1)>> ELSE <<>>)
    /\ data' = Constructed(data, new, None)
    /\ events' = Constructed(events, new, <<>>)
    /\ no_more_children' = Constructed(no_more_children, new, FALSE)
    /\ children_at_seal' = Constructed(children_at_seal, new, -1)
    /\ parent' = r.parent
    /\ demand' = r.demand
    /\ children' = IF r.ok THEN [children0 EXCEPT ![p] = Append(@, nk)] ELSE children0
    /\ autoclose' = IF r.ok /\ auto THEN add_autoclose_resource(autoclose, nk) ELSE autoclose
    /\ neg_pc' = [neg_pc EXCEPT ![p] = IF r.ok THEN "returned" ELSE "raised"]
    /\ ret' = Ret(op, p, nk, "ok", IF r.ok THEN "ok" ELSE "AssertionError", 0)

\* The ids the remote side can give to a resource of class kind that it creates
\* in the call: the ids no resource of the node has.
FreshIds(kind) == {n \in Ids : resources[KeyOf(kind, n)] = 0}

\* A remote call of a negotiation operation raised ApiException(status).
remote_failed(p, op, status) ==
    /\ neg_pc' = [neg_pc EXCEPT ![p] = "raised"]
    /\ ret' = Ret(op, p, NoKey, "none", api_call_wrapper({}, status), 0)
    /\ UNCHANGED <<regVars, data, treeVars, autoclose>>

\* Proposal.respond up to its first await: _response_data reads self.demand
\* (an assertion) and awaits demand.get_data(), which makes a remote call only
\* while the demand's data is not loaded; then counter_proposal_demand is awaited.
Respond ==
    /\ ncalls < MaxNegotiationCalls
    /\ ncalls' = ncalls + 1
    /\ \E p \in Proposals :
          /\ neg_pc[p] \in NotRunning
          /\ IF demand[p] = NoKey
             THEN /\ neg_pc' = [neg_pc EXCEPT ![p] = "raised"]
                  /\ ret' = Ret("respond", p, NoKey, "none", "AssertionError", 0)
             ELSE /\ neg_pc' = [neg_pc EXCEPT ![p] =
                                  IF data[demand[p]] = None THEN "demand_data" ELSE "counter"]
                  /\ ret' = Ret("respond", p, NoKey, "none", "pending", 0)
    /\ UNCHANGED <<regVars, data, treeVars, iterVars, gdVars, colVars, mktVars, stratVars,
                   scrVars, autoclose>>

\* respond's demand.get_data() is answered (or finds the data loaded by
\* another call in the meantime).
RespondData ==
    /\ \E p \in Proposals :
          /\ neg_pc[p] = "demand_data"
          /\ \E answer \in Answers, snap \in Snapshots :
                LET d == demand[p] IN
                IF data[d] # None
                THEN /\ neg_pc' = [neg_pc EXCEPT ![p] = "counter"]
                     /\ ret' = Ret("respond", p, NoKey, "none", "pending", 0)
                     /\ UNCHANGED <<regVars, data, treeVars, autoclose>>
                ELSE IF answer = "ok"
                THEN /\ data' = [data EXCEPT ![d] = snap]
                     /\ event_bus' = get_data_emit(event_bus, d, None, snap)
                     /\ neg_pc' = [neg_pc EXCEPT ![p] = "counter"]
                     /\ ret' = Ret("respond", p, NoKey, "none", "pending", 0)
                     /\ UNCHANGED <<resources, ninst, treeVars, autoclose>>
                ELSE remote_failed(p, "respond", answer)
    /\ UNCHANGED <<ncalls, iterVars, gdVars, colVars, mktVars, stratVars, scrVars>>

\* api.counter_proposal_demand answers with the id of the new proposal.
RespondDone ==
    /\ \E p \in Proposals :
          /\ neg_pc[p] = "counter"
          /\ \/ \E n \in FreshIds("Proposal") :
                   attach_new(p, KeyOf("Proposal", n), "respond", FALSE)
             \/ \E answer \in Answers \ {"ok"} : remote_failed(p, "respond", answer)
    /\ UNCHANGED <<ncalls, iterVars, gdVars, colVars, mktVars, stratVars, scrVars>>

\* Proposal.create_agreement(autoclose) up to api.create_agreement.
CreateAgreement ==
    /\ ncalls < MaxNegotiationCalls
    /\ ncalls' = ncalls + 1
    /\ \E p \in Proposals, auto \in BOOLEAN :
          /\ neg_pc[p] \in NotRunning
          /\ neg_pc' = [neg_pc EXCEPT ![p] = IF auto THEN "agreement_autoclose" ELSE "agreement"]
          /\ ret' = Ret("create_agreement", p, NoKey, "none", "pending", 0)
    /\ UNCHANGED <<regVars, data, treeVars, iterVars, gdVars, colVars, mktVars, stratVars,
                   scrVars, autoclose>>

\* api.create_agreement answers with the id of the agreement.
CreateAgreementDone ==
    /\ \E p \in Proposals :
          /\ neg_pc[p] \in {"agreement", "agreement_autoclose"}
          /\ \/ \E n \in FreshIds("Agreement") :
                   attach_new(p, KeyOf("Agreement", n), "create_agreement",
                              neg_pc[p] = "agreement_autoclose")
             \/ \E answer \in Answers \ {"ok"} : remote_failed(p, "create_agreement", answer)
    /\ UNCHANGED <<ncalls, iterVars, gdVars, colVars, mktVars, stratVars, scrVars>>

\* Proposal.reject up to api.reject_proposal_offer; its arguments read
\* self.demand (an assertion).
Reject ==
    /\ ncalls < MaxNegotiationCalls
    /\ ncalls' = ncalls + 1
    /\ \E p \in Proposals :
          /\ neg_pc[p] \in NotRunning
          /\ IF demand[p] = NoKey
             THEN /\ neg_pc' = [neg_pc EXCEPT ![p] = "raised"]
                  /\ ret' = Ret("reject", p, NoKey, "none", "AssertionError", 0)
             ELSE /\ neg_pc' = [neg_pc EXCEPT ![p] = "reject"]
                  /\ ret' = Ret("reject", p, NoKey, "none", "pending", 0)
    /\ UNCHANGED <<regVars, data, treeVars, iterVars, gdVars, colVars, mktVars, stratVars,
                   scrVars, autoclose>>

\* api.reject_proposal_offer answers.
RejectDone ==
    /\ \E p \in Proposals :
          /\ neg_pc[p] = "reject"
          /\ \E answer \in Answers :
                IF answer = "ok"
                THEN /\ neg_pc' = [neg_pc EXCEPT ![p] = "returned"]
                     /\ ret' = Ret("reject", p, NoKey, "ok", "ok", 0)
                     /\ UNCHANGED <<regVars, data, treeVars, autoclose>>
                ELSE remote_failed(p, "reject", answer)
    /\ UNCHANGED <<ncalls, iterVars, gdVars, colVars, mktVars, stratVars, scrVars>>

\* ------------------------------------------------------------------ scripts
ScriptKey(s) == [kind |-> "Script", id |-> s]
ResultKey(r) == [kind |-> "CommandExecuted", id |-> r]
Constructed_scripts == {s \in Scripts : script_ctx[s] # "none"}
Pair(cmd, f) == [cmd |-> cmd, fut |-> f]

\* Script(context): the script takes the next id of the global iterator.
NewScript ==
    /\ script_ids < NumScripts
    /\ \E c \in Contexts :
          /\ script_ids' = script_ids + 1
          /\ script_ctx' = [script_ctx EXCEPT ![script_ids + 1] = c]
          /\ commands' = [commands EXCEPT ![script_ids + 1] = <<>>]
          /\ ret' = Ret("Script", ScriptKey(script_ids + 1), NoKey, c, "ok", script_ids + 1)
    /\ UNCHANGED <<regVars, ncalls, data, treeVars, iterVars, gdVars, colVars, mktVars,
                   stratVars, negVars, futures, ctx_started, before_pc, handles, bootstrapped,
                   before_order>>

\* Script.add: a new future, appended with the command, and returned.
Add ==
    /\ ncalls < MaxScriptCalls
    /\ ncalls' = ncalls + 1
    /\ \E s \in Constructed_scripts, cmd \in UserCommands :
          LET f == Len(futures) + 1 IN
          /\ futures' = Append(futures, 0)
          /\ commands' = [commands EXCEPT ![s] = Append(@, Pair(cmd, f))]
          /\ handles' = [handles EXCEPT ![s] = Append(@, f)]
          /\ ret' = Ret("add", ScriptKey(s), NoKey, cmd, "ok", f)
    /\ UNCHANGED <<regVars, data, treeVars, iterVars, gdVars, colVars, mktVars, stratVars, negVars,
                   script_ids, script_ctx, ctx_started, before_pc, bootstrapped, before_order>>

\* The first lines of _before without "self._ctx._started = True".
Mut_bootstrap(s) ==
    LET c == script_ctx[s] f == Len(futures) + 1 IN
    IF ~ctx_started[c] /\ implicit_init[c]
    THEN /\ commands' = [commands EXCEPT ![s] = <<Pair("Deploy", f), Pair("Start", f + 1)>> \o @]
         /\ futures' = futures \o <<0, 0>>
         /\ bootstrapped' = bootstrapped \cup {s}
         /\ UNCHANGED ctx_started
    ELSE UNCHANGED <<commands, futures, ctx_started, bootstrapped>>

\* The first lines of _before: on a context that was not started and has
\* implicit init, insert Deploy at 0 and Start at 1, and mark the context.
bootstrap(s) ==
    LET c == script_ctx[s] f == Len(futures) + 1 IN
    IF ~ctx_started[c] /\ implicit_init[c]
    THEN /\ commands' = [commands EXCEPT ![s] = <<Pair("Deploy", f), Pair("Start", f + 1)>> \o @]
         /\ futures' = futures \o <<0, 0>>
         /\ ctx_started' = [ctx_started EXCEPT ![c] = TRUE]
         /\ bootstrapped' = bootstrapped \cup {s}
    ELSE UNCHANGED <<commands, futures, ctx_started, bootstrapped>>

\* Script._before up to its first await: the bootstrap, then the loop head.
Before ==
    /\ ncalls < MaxScriptCalls
    /\ ncalls' = ncalls + 1
    /\ \E s \in Constructed_scripts :
          /\ before_pc[s] = 0
          /\ bootstrap(s)
          /\ before_pc' = [before_pc EXCEPT ![s] = IF Len(commands'[s]) = 0 THEN 0 ELSE 1]
          /\ before_order' = IF \E i \in 1 .. Len(before_order) : before_order[i] = s
                             THEN before_order ELSE Append(before_order, s)
          /\ ret' = Ret("_before", ScriptKey(s), NoKey, "none",
                        IF Len(commands'[s]) = 0 THEN "ok" ELSE "pending", 0)
    /\ UNCHANGED <<regVars, data, treeVars, iterVars, gdVars, colVars, mktVars, stratVars, negVars,
                   script_ids, script_ctx, handles>>

\* One "await cmd.before(self._ctx)" of the loop returns; the loop goes on to
\* the next command of the list as it is now, or ends.
BeforeStep ==
    /\ \E s \in Constructed_scripts :
          /\ before_pc[s] > 0
          /\ before_pc' = [before_pc EXCEPT ![s] = IF @ < Len(commands[s]) THEN @ + 1 ELSE 0]
          /\ ret' = Ret("_before", ScriptKey(s), NoKey, "none",
                        IF before_pc[s] < Len(commands[s]) THEN "pending" ELSE "ok", before_pc[s])
    /\ UNCHANGED <<regVars, ncalls, data, treeVars, iterVars, gdVars, colVars, mktVars, stratVars, negVars,
                   script_ids, script_ctx, commands, futures, ctx_started, handles, bootstrapped,
                   before_order>>

\* Script._evaluate: the batch, one entry per command in list order (an entry
\* is written as the name of its command).
Script_evaluate(cmds) == [i \in 1 .. Len(cmds) |-> cmds[i].cmd]

Evaluate ==
    /\ \E s \in Constructed_scripts :
          ret' = Ret("_evaluate", ScriptKey(s), NoKey, "none", "ok",
                     Len(Script_evaluate(commands[s])))
    /\ UNCHANGED <<regVars, ncalls, data, treeVars, iterVars, gdVars, colVars, mktVars, stratVars,
                   scrVars, negVars>>

\* A list subscript that counts from the front only.
Mut_subscript(n, idx) == IF idx >= 0 /\ idx < n THEN idx + 1 ELSE 0

\* Python's list subscript on a list of length n: the 1-based position that
\* index idx denotes (a negative index counts from the end), 0 for IndexError.
subscript(n, idx) ==
    IF idx >= 0 /\ idx < n THEN idx + 1
    ELSE IF idx < 0 /\ idx >= -n THEN n + idx + 1
    ELSE 0

\* _set_cmd_result that resolves the slot after the one the index denotes.
Mut_set_cmd_result(s, idx, r) ==
    LET pos == subscript(Len(commands[s]), idx)
        nxt == IF pos < Len(commands[s]) THEN pos + 1 ELSE 1 IN
    IF pos = 0
    THEN /\ ret' = Ret("_set_cmd_result", ScriptKey(s), ResultKey(r), "none", "IndexError", idx)
         /\ UNCHANGED futures
    ELSE IF futures[commands[s][nxt].fut] # 0
    THEN /\ ret' = Ret("_set_cmd_result", ScriptKey(s), ResultKey(r), "none", "InvalidStateError", idx)
         /\ UNCHANGED futures
    ELSE /\ ret' = Ret("_set_cmd_result", ScriptKey(s), ResultKey(r), "none", "ok", idx)
         /\ futures' = [futures EXCEPT ![commands[s][nxt].fut] = r]

\* Script._set_cmd_result: subscript the list with cmd_idx, then set the
\* future's result; a future that is done raises InvalidStateError.
set_cmd_result(s, idx, r) ==
    LET pos == subscript(Len(commands[s]), idx) IN
    IF pos = 0
    THEN /\ ret' = Ret("_set_cmd_result", ScriptKey(s), ResultKey(r), "none", "IndexError", idx)
         /\ UNCHANGED futures
    ELSE IF futures[commands[s][pos].fut] # 0
    THEN /\ ret' = Ret("_set_cmd_result", ScriptKey(s), ResultKey(r), "none", "InvalidStateError", idx)
         /\ UNCHANGED futures
    ELSE /\ ret' = Ret("_set_cmd_result", ScriptKey(s), ResultKey(r), "none", "ok", idx)
         /\ futures' = [futures EXCEPT ![commands[s][pos].fut] = r]

SetCmdResult ==
    /\ ncalls < MaxScriptCalls
    /\ ncalls' = ncalls + 1
    /\ \E s \in Constructed_scripts, r \in Results :
          \E idx \in -(Len(commands[s]) + 1) .. Len(commands[s]) :
             set_cmd_result(s, idx, r)
    /\ UNCHANGED <<regVars, data, treeVars, iterVars, gdVars, colVars, mktVars, stratVars, negVars,
                   script_ids, script_ctx, commands, ctx_started, before_pc, handles,
                   bootstrapped, before_order>>

Init ==
    /\ resources = [k \in Keys |-> 0]
    /\ ninst = [k \in Keys |-> 0]
    /\ event_bus = <<>>
    /\ ret = NoRet
    /\ ncalls = 0
    /\ data = [k \in Keys |-> None]
    /\ parent = [k \in Keys |-> NoKey]
    /\ children = [k \in Keys |-> <<>>]
    /\ demand = [k \in Keys |-> NoKey]
    /\ events = [k \in Keys |-> <<>>]
    /\ no_more_children = [k \in Keys |-> FALSE]
    /\ children_at_seal = [k \in Keys |-> -1]
    /\ it_pc = [i \in Iters |-> "none"]
    /\ it_res = [i \in Iters |-> NoKey]
    /\ cnt = [i \in Iters |-> 0]
    /\ yielded = [i \in Iters |-> <<>>]
    /\ stop_task = [i \in Iters |-> FALSE]
    /\ get_data_lock = [k \in Keys |-> 0]
    /\ lock_waiters = [k \in Keys |-> <<>>]
    /\ gd_pc = [t \in Tasks |-> "idle"]
    /\ gd_call = [t \in Tasks |-> NoCall]
    /\ gd_fetch = [t \in Tasks |-> NoFetch]
    /\ gd_overlap = {}
    /\ col_task = "none"
    /\ col_events = <<>>
    /\ col_queues = <<>>
    /\ col_backoff = FALSE
    /\ event_collecting_task = [k \in Keys |-> "none"]
    /\ close_pc = [k \in Keys |-> "idle"]
    /\ wfa_pc = [k \in Keys |-> "idle"]
    /\ wfa_depth = [k \in Keys |-> 0]
    /\ rejection_count = [p \in Providers |-> 0]
    /\ last_event = [p \in Providers |-> "none"]
    /\ script_ids = 0
    /\ script_ctx = [s \in Scripts |-> "none"]
    /\ commands = [s \in Scripts |-> <<>>]
    /\ futures = <<>>
    /\ ctx_started = [c \in Contexts |-> FALSE]
    /\ before_pc = [s \in Scripts |-> 0]
    /\ handles = [s \in Scripts |-> <<>>]
    /\ bootstrapped = {}
    /\ before_order = <<>>
    /\ neg_pc = [k \in Keys |-> "idle"]
    /\ autoclose = {}

Next == Construct

Spec == Init /\ [][Next]_vars

\* The tree API on resources that exist: node.demand(1) and Proposal(node, i)
\* were called, nothing else happened yet.
TreeNodes == {KeyOf("Demand", 1)} \cup {KeyOf("Proposal", i) : i \in Ids}
TreeOrder == <<KeyOf("Demand", 1)>> \o [i \in Ids |-> KeyOf("Proposal", i)]

InitTree ==
    /\ resources = [k \in Keys |-> IF k \in TreeNodes THEN 1 ELSE 0]
    /\ ninst = [k \in Keys |-> IF k \in TreeNodes THEN 1 ELSE 0]
    /\ event_bus = [n \in 1 .. Len(TreeOrder) |-> NewResource(TreeOrder[n], 1)]
    /\ ret = NoRet
    /\ ncalls = 0
    /\ data = [k \in Keys |-> None]
    /\ parent = [k \in Keys |-> NoKey]
    /\ children = [k \in Keys |-> <<>>]
    /\ demand = [k \in Keys |-> NoKey]
    /\ events = [k \in Keys |-> <<>>]
    /\ no_more_children = [k \in Keys |-> FALSE]
    /\ children_at_seal = [k \in Keys |-> -1]
    /\ it_pc = [i \in Iters |-> "none"]
    /\ it_res = [i \in Iters |-> NoKey]
    /\ cnt = [i \in Iters |-> 0]
    /\ yielded = [i \in Iters |-> <<>>]
    /\ stop_task = [i \in Iters |-> FALSE]
    /\ get_data_lock = [k \in Keys |-> 0]
    /\ lock_waiters = [k \in Keys |-> <<>>]
    /\ gd_pc = [t \in Tasks |-> "idle"]
    /\ gd_call = [t \in Tasks |-> NoCall]
    /\ gd_fetch = [t \in Tasks |-> NoFetch]
    /\ gd_overlap = {}
    /\ col_task = "none"
    /\ col_events = <<>>
    /\ col_queues = <<>>
    /\ col_backoff = FALSE
    /\ event_collecting_task = [k \in Keys |-> "none"]
    /\ close_pc = [k \in Keys |-> "idle"]
    /\ wfa_pc = [k \in Keys |-> "idle"]
    /\ wfa_depth = [k \in Keys |-> 0]
    /\ rejection_count = [p \in Providers |-> 0]
    /\ last_event = [p \in Providers |-> "none"]
    /\ script_ids = 0
    /\ script_ctx = [s \in Scripts |-> "none"]
    /\ commands = [s \in Scripts |-> <<>>]
    /\ futures = <<>>
    /\ ctx_started = [c \in Contexts |-> FALSE]
    /\ before_pc = [s \in Scripts |-> 0]
    /\ handles = [s \in Scripts |-> <<>>]
    /\ bootstrapped = {}
    /\ before_order = <<>>
    /\ neg_pc = [k \in Keys |-> "idle"]
    /\ autoclose = {}

IterStep == \E i \in Iters : IterStart(i) \/ IterNext(i) \/ StopTaskRun(i) \/ IterWake(i)

NextTree == AddChild \/ SetNoMoreChildren \/ AddEvent

SpecTree == InitTree /\ [][NextTree]_vars

\* The tree API interleaved with the steps of child iterators.
NextIter == AddChild \/ SetNoMoreChildren \/ IterStep

SpecIter == InitTree /\ [][NextIter]_vars

\* get_data on resources that exist and were never loaded: node.demand(i).
RefreshNodes == {KeyOf("Demand", i) : i \in Ids}

InitRefresh ==
    /\ resources = [k \in Keys |-> IF k \in RefreshNodes THEN 1 ELSE 0]
    /\ ninst = [k \in Keys |-> IF k \in RefreshNodes THEN 1 ELSE 0]
    /\ event_bus = [n \in Ids |-> NewResource(KeyOf("Demand", n), 1)]
    /\ ret = NoRet
    /\ ncalls = 0
    /\ data = [k \in Keys |-> None]
    /\ parent = [k \in Keys |-> NoKey]
    /\ children = [k \in Keys |-> <<>>]
    /\ demand = [k \in Keys |-> NoKey]
    /\ events = [k \in Keys |-> <<>>]
    /\ no_more_children = [k \in Keys |-> FALSE]
    /\ children_at_seal = [k \in Keys |-> -1]
    /\ it_pc = [i \in Iters |-> "none"]
    /\ it_res = [i \in Iters |-> NoKey]
    /\ cnt = [i \in Iters |-> 0]
    /\ yielded = [i \in Iters |-> <<>>]
    /\ stop_task = [i \in Iters |-> FALSE]
    /\ get_data_lock = [k \in Keys |-> 0]
    /\ lock_waiters = [k \in Keys |-> <<>>]
    /\ gd_pc = [t \in Tasks |-> "idle"]
    /\ gd_call = [t \in Tasks |-> NoCall]
    /\ gd_fetch = [t \in Tasks |-> NoFetch]
    /\ gd_overlap = {}
    /\ col_task = "none"
    /\ col_events = <<>>
    /\ col_queues = <<>>
    /\ col_backoff = FALSE
    /\ event_collecting_task = [k \in Keys |-> "none"]
    /\ close_pc = [k \in Keys |-> "idle"]
    /\ wfa_pc = [k \in Keys |-> "idle"]
    /\ wfa_depth = [k \in Keys |-> 0]
    /\ rejection_count = [p \in Providers |-> 0]
    /\ last_event = [p \in Providers |-> "none"]
    /\ script_ids = 0
    /\ script_ctx = [s \in Scripts |-> "none"]
    /\ commands = [s \in Scripts |-> <<>>]
    /\ futures = <<>>
    /\ ctx_started = [c \in Contexts |-> FALSE]
    /\ before_pc = [s \in Scripts |-> 0]
    /\ handles = [s \in Scripts |-> <<>>]
    /\ bootstrapped = {}
    /\ before_order = <<>>
    /\ neg_pc = [k \in Keys |-> "idle"]
    /\ autoclose = {}

NextRefresh ==
    \E t \in Tasks : GetData(t) \/ GetDataAcquire(t) \/ GetDataFetched(t) \/ GetDataFailed(t)

SpecRefresh == InitRefresh /\ [][NextRefresh]_vars

NextCollector ==
    \/ CollectorStart
    \/ CollectorStop
    \/ CollectEvents
    \/ CollectorSleepDone
    \/ EventQueue
    \/ \E q \in 1 .. Len(col_queues) : QueueGet(q)

SpecCollector == Init /\ [][NextCollector]_vars

\* One subscribed Demand and the agreements of the node: node.demand(1) and
\* node.agreement(i) were called, nothing else happened yet.
MarketNodes == {KeyOf("Demand", 1)} \cup {KeyOf("Agreement", i) : i \in Ids}
MarketOrder == <<KeyOf("Demand", 1)>> \o [i \in Ids |-> KeyOf("Agreement", i)]

InitMarket ==
    /\ resources = [k \in Keys |-> IF k \in MarketNodes THEN 1 ELSE 0]
    /\ ninst = [k \in Keys |-> IF k \in MarketNodes THEN 1 ELSE 0]
    /\ event_bus = [n \in 1 .. Len(MarketOrder) |-> NewResource(MarketOrder[n], 1)]
    /\ ret = NoRet
    /\ ncalls = 0
    /\ data = [k \in Keys |-> None]
    /\ parent = [k \in Keys |-> NoKey]
    /\ children = [k \in Keys |-> <<>>]
    /\ demand = [k \in Keys |-> NoKey]
    /\ events = [k \in Keys |-> <<>>]
    /\ no_more_children = [k \in Keys |-> FALSE]
    /\ children_at_seal = [k \in Keys |-> -1]
    /\ it_pc = [i \in Iters |-> "none"]
    /\ it_res = [i \in Iters |-> NoKey]
    /\ cnt = [i \in Iters |-> 0]
    /\ yielded = [i \in Iters |-> <<>>]
    /\ stop_task = [i \in Iters |-> FALSE]
    /\ get_data_lock = [k \in Keys |-> 0]
    /\ lock_waiters = [k \in Keys |-> <<>>]
    /\ gd_pc = [t \in Tasks |-> "idle"]
    /\ gd_call = [t \in Tasks |-> NoCall]
    /\ gd_fetch = [t \in Tasks |-> NoFetch]
    /\ gd_overlap = {}
    /\ col_task = "none"
    /\ col_events = <<>>
    /\ col_queues = <<>>
    /\ col_backoff = FALSE
    /\ event_collecting_task = [k \in Keys |-> "none"]
    /\ close_pc = [k \in Keys |-> "idle"]
    /\ wfa_pc = [k \in Keys |-> "idle"]
    /\ wfa_depth = [k \in Keys |-> 0]
    /\ rejection_count = [p \in Providers |-> 0]
    /\ last_event = [p \in Providers |-> "none"]
    /\ script_ids = 0
    /\ script_ctx = [s \in Scripts |-> "none"]
    /\ commands = [s \in Scripts |-> <<>>]
    /\ futures = <<>>
    /\ ctx_started = [c \in Contexts |-> FALSE]
    /\ before_pc = [s \in Scripts |-> 0]
    /\ handles = [s \in Scripts |-> <<>>]
    /\ bootstrapped = {}
    /\ before_order = <<>>
    /\ neg_pc = [k \in Keys |-> "idle"]
    /\ autoclose = {}

\* A Demand collecting its events until it is unsubscribed.
NextDemand ==
    \/ StartCollecting
    \/ ProcessProposalEvent
    \/ ProcessProposalRejectedEvent
    \/ Unsubscribe
    \/ UnsubscribeDone

SpecDemand == InitMarket /\ [][NextDemand]_vars

\* The closing calls: Demand.unsubscribe and Agreement.terminate.
NextClose ==
    \/ Unsubscribe
    \/ UnsubscribeDone
    \/ Terminate
    \/ TerminateDone

SpecClose == InitMarket /\ [][NextClose]_vars

\* Callers waiting for the approval of the node's agreements.
NextApproval == WaitForApproval \/ WaitAnswer

SpecApproval == InitMarket /\ [][NextApproval]_vars

\* The strategy receiving events and scoring offers.
NextStrategy == OnEvent \/ ScoreOffer

SpecStrategy == Init /\ [][NextStrategy]_vars

\* Scripts being built and prepared for sending on the two contexts.
NextScript == NewScript \/ Add \/ Before \/ BeforeStep \/ Evaluate

SpecScript == Init /\ [][NextScript]_vars

\* Scripts whose commands' results come in. The awaits of _before's loop touch
\* neither the command list nor a future, and are left to SpecScript.
NextResults == NewScript \/ Add \/ Before \/ SetCmdResult

SpecResults == Init /\ [][NextResults]_vars

\* Negotiation: node.demand(i) was called for every id and demand 1 collects
\* its events; proposals arrive, are looked up and are answered.
NegotiationNodes == {KeyOf("Demand", i) : i \in Ids}
NegotiationOrder == [i \in Ids |-> KeyOf("Demand", i)]

InitNegotiation ==
    /\ resources = [k \in Keys |-> IF k \in NegotiationNodes THEN 1 ELSE 0]
    /\ ninst = [k \in Keys |-> IF k \in NegotiationNodes THEN 1 ELSE 0]
    /\ event_bus = [n \in 1 .. Len(NegotiationOrder) |-> NewResource(NegotiationOrder[n], 1)]
    /\ ret = NoRet
    /\ ncalls = 0
    /\ data = [k \in Keys |-> None]
    /\ parent = [k \in Keys |-> NoKey]
    /\ children = [k \in Keys |-> <<>>]
    /\ demand = [k \in Keys |-> NoKey]
    /\ events = [k \in Keys |-> <<>>]
    /\ no_more_children = [k \in Keys |-> FALSE]
    /\ children_at_seal = [k \in Keys |-> -1]
    /\ it_pc = [i \in Iters |-> "none"]
    /\ it_res = [i \in Iters |-> NoKey]
    /\ cnt = [i \in Iters |-> 0]
    /\ yielded = [i \in Iters |-> <<>>]
    /\ stop_task = [i \in Iters |-> FALSE]
    /\ get_data_lock = [k \in Keys |-> 0]
    /\ lock_waiters = [k \in Keys |-> <<>>]
    /\ gd_pc = [t \in Tasks |-> "idle"]
    /\ gd_call = [t \in Tasks |-> NoCall]
    /\ gd_fetch = [t \in Tasks |-> NoFetch]
    /\ gd_overlap = {}
    /\ col_task = "none"
    /\ col_events = <<>>
    /\ col_queues = <<>>
    /\ col_backoff = FALSE
    /\ event_collecting_task = [k \in Keys |-> IF k = KeyOf("Demand", 1) THEN "running" ELSE "none"]
    /\ close_pc = [k \in Keys |-> "idle"]
    /\ wfa_pc = [k \in Keys |-> "idle"]
    /\ wfa_depth = [k \in Keys |-> 0]
    /\ rejection_count = [p \in Providers |-> 0]
    /\ last_event = [p \in Providers |-> "none"]
    /\ script_ids = 0
    /\ script_ctx = [s \in Scripts |-> "none"]
    /\ commands = [s \in Scripts |-> <<>>]
    /\ futures = <<>>
    /\ ctx_started = [c \in Contexts |-> FALSE]
    /\ before_pc = [s \in Scripts |-> 0]
    /\ handles = [s \in Scripts |-> <<>>]
    /\ bootstrapped = {}
    /\ before_order = <<>>
    /\ neg_pc = [k \in Keys |-> "idle"]
    /\ autoclose = {}

NegotiationProposalEvent == ncalls < MaxNegotiationCalls /\ ProcessProposalEvent
NegotiationRejectedEvent == ncalls < MaxNegotiationCalls /\ ProcessProposalRejectedEvent

NextNegotiation ==
    \/ NegotiationProposalEvent
    \/ NegotiationRejectedEvent
    \/ ProposalLookup
    \/ Respond
    \/ RespondData
    \/ RespondDone
    \/ CreateAgreement
    \/ CreateAgreementDone
    \/ Reject
    \/ RejectDone

SpecNegotiation == InitNegotiation /\ [][NextNegotiation]_vars

\* The consumer keeps pulling and the event loop runs every ready task: each
\* started generator takes its next step, and stop_task runs once it is ready.
SpecIterFair ==
    /\ SpecIter
    /\ \A i \in Iters : /\ WF_vars(IterNext(i))
                        /\ WF_vars(StopTaskRun(i))
                        /\ WF_vars(IterWake(i))

\* ------------------------------------------------------------------ claims
Started(i) == it_pc[i] # "none"
NoRepeats(s) == \A m, n \in 1 .. Len(s) : m # n => s[m] # s[n]

\* The NewResource events on the bus for resource k.
NewEvents(k) == {n \in 1 .. Len(event_bus) :
                    event_bus[n].type = "NewResource" /\ event_bus[n].resource = k}

\* C1 as stated: every constructor call for a (kind, id) returns the one
\* registered instance.
C1_EveryCallReturnsInstance ==
    ret.op = "call" => (ret.outcome = "ok" /\ ret.inst = resources[ret.key])

\* C1 amended: for every (kind, id) at most one instance is ever constructed and
\* registered, exactly one NewResource event was emitted for it if it is
\* registered and none otherwise; every call that returns, returns the registered
\* instance; a call fails only when it passes data positionally for a pair that
\* is already registered.
C1_Identity ==
    /\ \A k \in Keys : /\ ninst[k] <= 1
                       /\ resources[k] = ninst[k]
                       /\ Cardinality(NewEvents(k)) = ninst[k]
    /\ (ret.op = "call" /\ ret.outcome = "ok") =>
           (ret.inst = resources[ret.key] /\ ret.inst = 1)
    /\ (ret.op = "call" /\ ret.outcome # "ok") =>
           (ret.mode = "args" /\ resources[ret.key] = 1)

\* Three calls were made, the last one returned, and one event is on the bus:
\* the calls after the first emitted nothing.
C1_Witness ==
    /\ ncalls = 3
    /\ ret.op = "call"
    /\ ret.outcome = "ok"
    /\ ret.mode = "none"
    /\ Len(event_bus) = 1

\* C2: the event emitted when a constructor call registers a new resource is
\* ResourceFound if no data was passed and ResourceCreated if data was passed.
C2_FoundOrCreated ==
    [][(ret'.op = "call" /\ Len(event_bus') = Len(event_bus) + 1) =>
          event_bus'[Len(event_bus')].type =
              IF ret'.mode = "none" THEN "ResourceFound" ELSE "ResourceCreated"]_vars

\* C3: at every moment of every interleaving of add_child with the steps of a
\* child iterator, what the iterator has yielded is exactly the first children of
\* its resource, in the order they were added, each once.
C3_YieldsInAddOrder ==
    \A i \in Iters : Started(i) =>
        /\ Len(yielded[i]) <= Len(children[it_res[i]])
        /\ yielded[i] = SubSeq(children[it_res[i]], 1, Len(yielded[i]))
        /\ NoRepeats(yielded[i])

\* An iterator that has yielded the first child while a second, added after the
\* iterator was started, is still to come.
C3_Witness ==
    \E i \in Iters : /\ Started(i)
                     /\ Len(yielded[i]) = 1
                     /\ Len(children[it_res[i]]) = 2

\* C4: an iterator that has terminated has yielded every child that was added to
\* its resource before the resource was sealed.
C4_CompleteAtTermination ==
    \A i \in Iters : it_pc[i] = "done" => Len(yielded[i]) >= children_at_seal[it_res[i]]

\* C5: a started iterator on a sealed resource eventually terminates, and an
\* iterator terminates only on a sealed resource.
C5_Termination ==
    /\ \A i \in Iters : [](it_pc[i] = "done" => no_more_children[it_res[i]])
    /\ \A i \in Iters : (Started(i) /\ no_more_children[it_res[i]]) ~> (it_pc[i] = "done")

\* An iterator that was started on an already sealed resource, or was waiting when
\* the seal came, and has terminated.
C5_Witness ==
    \E i \in Iters : /\ it_pc[i] = "done"
                     /\ Len(yielded[i]) > 0

\* C6: once a resource is sealed its children list never changes again.
C6_NoChildAfterSeal ==
    [][\A r \in Keys : no_more_children[r] => children'[r] = children[r]]_vars

\* C7: add_child on a child whose parent is already set fails and leaves every
\* parent and every children list as it was; a parent, once set, never changes.
C7_ParentSetOnce ==
    [][/\ \A c \in Keys : parent[c] # NoKey => parent'[c] = parent[c]
       /\ (ret'.op = "add_child" /\ ncalls' # ncalls /\ parent[ret'.arg] # NoKey) =>
              /\ ret'.outcome = "AssertionError"
              /\ parent' = parent
              /\ children' = children]_vars

\* A failed add_child on a child that is attached under another parent.
C7_Witness ==
    /\ ret.op = "add_child"
    /\ ret.outcome = "AssertionError"
    /\ parent[ret.arg] # NoKey
    /\ parent[ret.arg] # ret.key
    /\ ret.arg # ret.key

InFlight(r) == {t \in Tasks : gd_pc[t] = "fetch" /\ gd_call[t].res = r}
Fetched(t) == gd_fetch[t].status = "ok"

\* C8 as stated: at most one fetch per resource is in flight, and of two
\* concurrent get_data calls on one resource at most one completes a remote
\* exchange (the other observes its result).
C8_SingleExchange ==
    /\ \A r \in Keys : Cardinality(InFlight(r)) <= 1
    /\ \A t, u \in Tasks : {t, u} \in gd_overlap /\ t # u => ~(Fetched(t) /\ Fetched(u))

\* C8 amended: at most one fetch per resource is in flight at any time, made by
\* the holder of the resource's lock; of two concurrent calls both complete an
\* exchange only if one of them is forced; a forced call that returns has always
\* made its own fetch.
C8_Serialized ==
    /\ \A r \in Keys : Cardinality(InFlight(r)) <= 1
    /\ \A r \in Keys : InFlight(r) # {} => get_data_lock[r] \in InFlight(r)
    /\ \A t, u \in Tasks : ({t, u} \in gd_overlap /\ t # u /\ Fetched(t) /\ Fetched(u)) =>
           gd_call[t].force \/ gd_call[u].force
    /\ \A t \in Tasks : (gd_pc[t] = "returned" /\ gd_call[t].force) => gd_fetch[t].status = "ok"

\* Two concurrent calls on one resource, one fetching while the other waits for
\* the lock.
C8_Witness ==
    \E t, u \in Tasks : /\ gd_pc[t] = "fetch"
                        /\ gd_pc[u] = "acquire"
                        /\ gd_call[u].res = gd_call[t].res
                        /\ {t, u} \in gd_overlap

\* C9: when a fetch returns, the resource's data is the fetched snapshot; if it
\* equals the data held before, nothing is emitted; if it differs, exactly one
\* ResourceDataChanged carrying the data held before is emitted.
C9_ChangeSuppression ==
    [][\A t \in Tasks : (gd_pc[t] = "fetch" /\ gd_pc'[t] = "returned") =>
          LET r == gd_call[t].res IN
          /\ gd_fetch'[t].status = "ok"
          /\ data'[r] = gd_fetch'[t].value
          /\ (gd_fetch'[t].value = data[r] => event_bus' = event_bus)
          /\ (gd_fetch'[t].value # data[r] =>
                 event_bus' = Append(event_bus,
                     [type |-> "ResourceDataChanged", resource |-> r,
                      inst |-> resources[r], old_data |-> data[r]]))]_vars

\* One task's refresh fetched the snapshot already held (and the bus holds no
\* event for it), another's replaced snapshot 1 by 2 and the last event on the
\* bus carries snapshot 1.
C9_Witness ==
    \E t, u \in Tasks :
        /\ gd_pc[t] = "returned" /\ gd_fetch[t].status = "ok"
        /\ gd_call[t].old_data = 1 /\ gd_fetch[t].value = 1
        /\ gd_pc[u] = "returned" /\ gd_fetch[u].status = "ok"
        /\ gd_call[u].old_data = 1 /\ gd_fetch[u].value = 2
        /\ gd_call[u].res = gd_call[t].res
        /\ Len(event_bus) = NumIds + 2
        /\ event_bus[Len(event_bus)].type = "ResourceDataChanged"
        /\ event_bus[Len(event_bus)].old_data = 1
        /\ data[gd_call[u].res] = 2

\* Everything ever put into queue q, in the order it was put.
Received(q) == col_queues[q].got \o col_queues[q].items

\* C10: a queue made with past events enabled has received every event the
\* collector ever polled, each once, in arrival order, whenever it was made.
C10_ReplayComplete ==
    \A q \in 1 .. Len(col_queues) : col_queues[q].past => Received(q) = col_events

\* A queue made after events were buffered, that received later events too and
\* whose consumer has taken out an event of each kind.
C10_Witness ==
    \E q \in 1 .. Len(col_queues) :
        /\ col_queues[q].past
        /\ col_queues[q].since > 0
        /\ Len(col_events) > col_queues[q].since
        /\ Len(col_queues[q].got) > col_queues[q].since

\* The events polled since queue q was made.
PolledSince(q) == SubSeq(col_events, col_queues[q].since + 1, Len(col_events))
\* The last n elements of s.
Suffix(s, n) == SubSeq(s, Len(s) - n + 1, Len(s))

\* C11: the replay buffer is the concatenation of the poll results in poll order
\* (the events are numbered by arrival), and every queue has received, after
\* whatever it was given when it was made, exactly the events polled since then,
\* in that order.
C11_FanOut ==
    /\ col_events = [j \in 1 .. Len(col_events) |-> j]
    /\ \A q \in 1 .. Len(col_queues) :
          /\ Len(Received(q)) >= Len(PolledSince(q))
          /\ Suffix(Received(q), Len(PolledSince(q))) = PolledSince(q)
          /\ ~col_queues[q].past => Received(q) = PolledSince(q)

\* Two queues, the second made without past events after the first poll results,
\* and a batch of two events polled after that.
C11_Witness ==
    /\ Len(col_queues) = 2
    /\ ~col_queues[2].past
    /\ col_queues[2].since > 0
    /\ Len(PolledSince(2)) >= 2
    /\ col_queues[2].got # <<>>

\* C12: stop() never raises and leaves no polling loop behind, whether or not
\* one was running; while no loop is running (after stop, until a new start)
\* nothing is appended to the replay buffer or put into an existing queue.
C12_StopIsFinal ==
    [][/\ (ret'.op = "stop" /\ ncalls' # ncalls) =>
              (ret'.outcome = "ok" /\ col_task' = "none")
       /\ col_task = "none" =>
              /\ col_events' = col_events
              /\ \A q \in 1 .. Len(col_queues) : Received(q)' = Received(q)]_vars

\* stop() was called while the loop had a poll in flight, after events had been
\* delivered to a queue.
C12_Witness ==
    /\ ret.op = "stop"
    /\ col_task = "none"
    /\ col_events # <<>>
    /\ col_queues # <<>>

\* C13: while the delay owed after an empty poll result has not elapsed no poll
\* is in flight; a poll result that brought events is followed by the next poll
\* at once.
C13_Backoff ==
    /\ [](col_backoff => col_task = "sleeping")
    /\ [][(col_task = "polling" /\ col_events' # col_events) =>
              (col_task' = "polling" /\ ~col_backoff')]_vars

\* The loop is in its delay after an empty poll that followed a poll with events.
C13_Witness ==
    /\ col_backoff
    /\ col_task = "sleeping"
    /\ col_events # <<>>

\* Where the proposal event just processed had to be routed.
IsChild(ch, k) == \E par \in Keys : \E n \in 1 .. Len(ch[par]) : ch[par][n] = k
RoutedUnder(pk, par) ==
    /\ ret'.outcome = "ok"
    /\ parent'[pk] = par
    /\ children' = [children EXCEPT ![par] = Append(@, pk)]
RoutingFailed(pk) ==
    /\ ret'.outcome = "AssertionError"
    /\ parent'[pk] = NoKey
    /\ ~IsChild(children', pk)
Routing(pk, qk, d) ==
    IF ret'.mode = "Initial" THEN RoutedUnder(pk, d)
    ELSE IF parent[qk] # NoKey THEN RoutedUnder(pk, qk)
    ELSE RoutingFailed(pk)

ClosedEvents(bus, k) ==
    {n \in 1 .. Len(bus) : bus[n].type = "ResourceClosed" /\ bus[n].resource = k}

\* C15: when unsubscribe issues its remote call the Demand is sealed and its
\* event task is stopped; an event is processed for the Demand only while its
\* task runs, so none is from then on (unless start_collecting_events is called
\* anew); a ResourceClosed for the Demand is emitted only by the step in which
\* the remote call returns successfully.
C15_UnsubscribeOrder ==
    [][\A d \in Keys : d.kind = "Demand" =>
          /\ (close_pc[d] # "remote" /\ close_pc'[d] = "remote") =>
                 (no_more_children'[d] /\ event_collecting_task'[d] = "none")
          /\ (ret'.op \in {"ProposalEvent", "ProposalRejectedEvent"}
                 /\ ncalls' # ncalls /\ ret'.inst = d.id) =>
                 event_collecting_task[d] = "running"
          /\ ClosedEvents(event_bus', d) # ClosedEvents(event_bus, d) =>
                 /\ close_pc[d] = "remote"
                 /\ close_pc'[d] = "returned"
                 /\ ret'.mode = "ok"]_vars

\* unsubscribe has returned after a successful remote call, on a Demand whose
\* task had attached a proposal; ResourceClosed is the last event on the bus.
C15_Witness ==
    /\ ret.op = "unsubscribe"
    /\ ret.mode = "ok"
    /\ ret.outcome = "ok"
    /\ children[ret.key] # <<>>
    /\ event_collecting_task[ret.key] = "none"
    /\ event_bus[Len(event_bus)] = ResourceClosed(ret.key)

\* A closing call on k has just completed on the remote answer ret'.mode.
CloseCompleted(k) == close_pc[k] = "remote" /\ close_pc'[k] # "remote"

\* C16: a closing call (unsubscribe, terminate) that the remote side answers
\* with not-found or gone returns normally, and leaves the resource as a
\* successful close leaves it (a Demand sealed, its event task stopped).
C16_ToleratesGone ==
    [][\A k \in Keys : (CloseCompleted(k) /\ ret'.mode \in {"404", "410"}) =>
          /\ ret'.outcome = "ok"
          /\ close_pc'[k] = "returned"
          /\ k.kind = "Demand" =>
                 (no_more_children'[k] /\ event_collecting_task'[k] = "none")]_vars

\* C17: a terminate that completes on a successful remote call leaves the
\* agreement sealed and has emitted exactly one ResourceClosed for it; one that
\* completes on a failed remote call has emitted none.
C17_TerminateSeals ==
    [][\A a \in Keys : (a.kind = "Agreement" /\ CloseCompleted(a)) =>
          IF ret'.mode = "ok"
          THEN /\ no_more_children'[a]
               /\ event_bus' = Append(event_bus, ResourceClosed(a))
          ELSE event_bus' = event_bus]_vars

\* The call of wait_for_approval on a has just returned or raised.
WaitCompleted(a) == wfa_pc[a] = "waiting" /\ wfa_pc'[a] # "waiting"

\* C18: whenever a call of wait_for_approval completes, it does so on a remote
\* answer other than request timeout: it returns True on approval and False on
\* gone, and raises the remote error unchanged on any other answer.
C18_OutcomeMapping ==
    [][\A a \in Keys : WaitCompleted(a) =>
          /\ ret'.mode # "408"
          /\ ret'.mode = "ok" => ret'.outcome = "True"
          /\ ret'.mode = "410" => ret'.outcome = "False"
          /\ ret'.mode \notin {"ok", "410", "408"} => ret'.outcome = "ApiException"]_vars

\* C19: every request timeout is followed by a new wait, however many came before:
\* a call that has been answered with nothing but request timeouts is still
\* waiting.
C19_UnboundedRetry ==
    [][\A a \in Keys : (wfa_pc[a] = "waiting" /\ ret'.key = a /\ ret'.mode = "408") =>
          (wfa_pc'[a] = "waiting" /\ ret'.outcome = "pending")]_vars

\* The score of an offer of a derated provider.
Derated == (BaseScore * FactorPercent) \div 100

\* C20: a provider's counter is nonzero exactly when the last event seen for it
\* is a rejection; score_offer returns base * factor for such a provider, however
\* many rejections were counted, and base for any other; a confirmation resets
\* the counter to 0; an event for one provider changes neither the counter nor
\* the score of another.
C20_Decay ==
    /\ [](\A p \in Providers :
             /\ rejection_count[p] > 0 <=> last_event[p] = "AgreementRejected"
             /\ score_offer(rejection_count, p) =
                    IF last_event[p] = "AgreementRejected" THEN Derated ELSE BaseScore
             /\ (ret.op = "score_offer" /\ ret.key = ProviderKey(p)) =>
                    ret.inst = score_offer(rejection_count, p))
    /\ [][\A p \in Providers : (ret'.op = "on_event" /\ ncalls' # ncalls /\ ret'.key.id = p) =>
              /\ ret'.mode = "AgreementConfirmed" => rejection_count'[p] = 0
              /\ ret'.mode = "AgreementRejected" => rejection_count'[p] = rejection_count[p] + 1
              /\ \A q \in Providers \ {p} :
                    /\ rejection_count'[q] = rejection_count[q]
                    /\ score_offer(rejection_count', q) = score_offer(rejection_count, q)]_vars

\* Provider 1 was rejected twice and is scored base * factor; provider 2 was
\* rejected, then confirmed, and is scored base.
C20_Witness ==
    /\ rejection_count[1] = 2
    /\ last_event[2] = "AgreementConfirmed"
    /\ ncalls = 4
    /\ ret.op = "score_offer"
    /\ ret.key = ProviderKey(1)
    /\ ret.inst = 3
    /\ score_offer(rejection_count, 2) = 6

\* Script s was constructed on context c.
OnContext(c) == {s \in Scripts : script_ctx[s] = c}

\* C21: on a context with implicit init, Deploy and Start are prepended to the
\* first script of the context whose _before runs and to no other script, and
\* only once: that script evaluates to Deploy, Start and then its own commands,
\* every other script to its own commands only; on a context without implicit
\* init nothing is prepended to any script.
C21_BootstrapOnce ==
    \A s \in Scripts :
       LET c == script_ctx[s]
           mine == [i \in 1 .. Len(handles[s]) |-> "Run"]
           first == \E i \in 1 .. Len(before_order) :
                       /\ before_order[i] = s
                       /\ \A j \in 1 .. i - 1 : script_ctx[before_order[j]] # c
       IN  /\ s \in bootstrapped <=> (c = "implicit" /\ first)
           /\ Script_evaluate(commands[s]) =
                 IF s \in bootstrapped THEN <<"Deploy", "Start">> \o mine ELSE mine
           /\ (c # "none" /\ ctx_started[c]) => \E t \in OnContext(c) : t \in bootstrapped

\* Two scripts with one Run each share the implicit context; both _before calls
\* were made, the second while the first was still in its loop: the first
\* script evaluates to [Deploy, Start, Run], the second to [Run].
C21_Witness ==
    /\ script_ctx[1] = "implicit" /\ script_ctx[2] = "implicit"
    /\ before_order = <<1, 2>>
    /\ before_pc[1] > 0 /\ before_pc[2] > 0
    /\ Script_evaluate(commands[1]) = <<"Deploy", "Start", "Run">>
    /\ Script_evaluate(commands[2]) = <<"Run">>

\* The step is a call of _set_cmd_result on script s that returned.
ResultSet(s) ==
    /\ ret'.op = "_set_cmd_result"
    /\ ncalls' # ncalls
    /\ ret'.key = ScriptKey(s)
    /\ ret'.outcome = "ok"

\* The futures whose state the step changes.
Completed == {f \in 1 .. Len(futures) : futures'[f] # futures[f]}

\* C22: the command of the i-th add() call of a script has index i - 1 for the
\* lifetime of the script, the bootstrap step included, and resolving the result
\* at index i completes the handle that the (i + 1)-th add() call returned and
\* no other future.
C22_IndexByAppendOrder ==
    /\ [](\A s \in Scripts : \A i \in 1 .. Len(handles[s]) :
             i <= Len(commands[s]) /\ commands[s][i].fut = handles[s][i])
    /\ [][\A s \in Scripts : ResultSet(s) =>
              /\ ret'.inst >= 0 /\ ret'.inst < Len(handles[s])
              /\ Completed = {handles[s][ret'.inst + 1]}]_vars

\* The number of commands _before has put in front of script s's own commands.
Prepended(s) == IF s \in bootstrapped THEN 2 ELSE 0

\* C22 (amended): a command's index is its position in the command list: add()
\* appends, the bootstrap step puts Deploy and Start in front, which raises the
\* index of every command already added by two, and nothing else changes the
\* list, so the commands keep their relative order and no future is in the list
\* twice; a step completes a future only if it is _set_cmd_result returning,
\* and then exactly the future at the position its index denotes at that
\* moment (counted from the end for a negative index).
C22_IndexByPosition ==
    /\ [](\A s \in Scripts :
             /\ Len(commands[s]) = Len(handles[s]) + Prepended(s)
             /\ \A i \in 1 .. Len(handles[s]) : commands[s][i + Prepended(s)].fut = handles[s][i]
             /\ \A t \in Scripts : \A i \in 1 .. Len(commands[s]), j \in 1 .. Len(commands[t]) :
                    commands[s][i].fut = commands[t][j].fut => (s = t /\ i = j))
    /\ [][/\ \A s \in Scripts :
               \/ commands'[s] = commands[s]
               \/ /\ ret'.op = "add"
                  /\ Len(commands'[s]) = Len(commands[s]) + 1
                  /\ SubSeq(commands'[s], 1, Len(commands[s])) = commands[s]
               \/ /\ ret'.op = "_before"
                  /\ Len(commands'[s]) = Len(commands[s]) + 2
                  /\ SubSeq(commands'[s], 3, Len(commands'[s])) = commands[s]
                  /\ Script_evaluate(SubSeq(commands'[s], 1, 2)) = <<"Deploy", "Start">>
          /\ Completed # {} => \E s \in Scripts :
               /\ ResultSet(s)
               /\ subscript(Len(commands[s]), ret'.inst) # 0
               /\ Completed = {commands[s][subscript(Len(commands[s]), ret'.inst)].fut}]_vars

\* Script 1 got its Run before the bootstrap; the result at index 2 has
\* completed the handle of that Run, and the result at index 0 the future of
\* Deploy.
C22_Witness ==
    /\ 1 \in bootstrapped
    /\ Len(handles[1]) = 1
    /\ ret.op = "_set_cmd_result" /\ ret.outcome = "ok" /\ ret.key = ScriptKey(1)
    /\ ret.inst = 0
    /\ futures[commands[1][1].fut] # 0
    /\ futures[handles[1][1]] # 0
    /\ commands[1][3].fut = handles[1][1]

\* The step is a call of _set_cmd_result on script s with an index outside
\* 0 .. n - 1, n the number of commands of s.
OutOfRange(s) ==
    /\ ret'.op = "_set_cmd_result"
    /\ ncalls' # ncalls
    /\ ret'.key = ScriptKey(s)
    /\ (ret'.inst < 0 \/ ret'.inst >= Len(commands[s]))

\* C23: _set_cmd_result with an index outside 0 .. n - 1 (negative, or n and
\* above) on a script of n commands raises and completes no future.
C23_OutOfRangeFatal ==
    [][\A s \in Scripts : OutOfRange(s) =>
          (ret'.outcome # "ok" /\ futures' = futures)]_vars

\* The position (from 1) of the command whose future is f in script s, 0 if none.
PositionOf(s, f) ==
    IF \E i \in 1 .. Len(commands[s]) : commands[s][i].fut = f
    THEN CHOOSE i \in 1 .. Len(commands[s]) : commands[s][i].fut = f
    ELSE 0

\* A handle that is resolved keeps its value, also when a further result for
\* its index comes in: that call raises.
OneShot ==
    \A s \in Scripts : \A i \in 1 .. Len(handles[s]) :
       LET h == handles[s][i] IN
       futures[h] # 0 =>
          /\ futures'[h] = futures[h]
          /\ (/\ ret'.op = "_set_cmd_result" /\ ncalls' # ncalls /\ ret'.key = ScriptKey(s)
              /\ ret'.inst = PositionOf(s, h) - 1) => ret'.outcome = "InvalidStateError"

\* A handle that is pending stays pending in every step but a _set_cmd_result
\* for the index of its command, which resolves it with that result.
OwnResultOnly ==
    \A s \in Scripts : \A i \in 1 .. Len(handles[s]) :
       LET h == handles[s][i] IN
       futures[h] = 0 =>
          IF ret'.op = "_set_cmd_result" /\ ncalls' # ncalls /\ ret'.key = ScriptKey(s)
             /\ ret'.inst = PositionOf(s, h) - 1
          THEN futures'[h] = ret'.arg.id
          ELSE futures'[h] = 0

\* C24: a handle returned by add() is pending until a result for the index of
\* its command arrives and is resolved by that result; a second result for the
\* index is rejected and leaves the value as it is; once resolved, the value
\* never changes.
C24_ResolvesOnce == [][OneShot /\ OwnResultOnly]_vars

\* The events on the bus that report a failure of resource k: every event
\* about k that is not one of the three the resources emit in normal operation.
FaultEvents(bus, k) ==
    {i \in 1 .. Len(bus) :
        /\ bus[i].resource = k
        /\ bus[i].type \notin {"NewResource", "ResourceDataChanged", "ResourceClosed"}}

\* C25: when a demand's event-processing task has failed, an event on the bus
\* reports it, or the demand's child iterators have been released (the demand
\* has no more children): the task is never dead with nobody told and the
\* iterators left waiting.
C25_FailureExposed ==
    \A d \in Demands :
       event_collecting_task[d] = "failed" =>
          (FaultEvents(event_bus, d) # {} \/ no_more_children[d])

\* The step is the failure of the remote call of task t's get_data.
FetchFails(t) == gd_pc[t] = "fetch" /\ gd_pc'[t] = "raised"

\* C29: when the remote call of get_data fails, with ResourceNotFound or with
\* any other exception, the data of every resource and the event bus are left as
\* they were, the call raises that error, and the resource's lock is released;
\* the lock is never held but by a task which is at its remote call, so a later
\* get_data on the resource is not blocked by a call that has failed.
C29_FailedRefresh ==
    /\ [](\A r \in Keys : get_data_lock[r] # 0 =>
             (gd_pc[get_data_lock[r]] = "fetch" /\ gd_call[get_data_lock[r]].res = r))
    /\ [][\A t \in Tasks : FetchFails(t) =>
              /\ data' = data
              /\ event_bus' = event_bus
              /\ ret'.op = "get_data" /\ ret'.key = gd_call[t].res /\ ret'.outcome # "ok"
              /\ get_data_lock[gd_call[t].res] = t
              /\ get_data_lock'[gd_call[t].res] = 0]_vars

\* Task 1's forced refresh of a loaded resource failed and left the data; task 2, which had waited for the lock, then got it and is
\* at its remote call.
C29_Witness ==
    \E r \in Registered :
       /\ gd_pc[1] = "raised" /\ gd_call[1].res = r /\ gd_call[1].force
       /\ gd_fetch[1].status = "failed"
       /\ ret.op = "get_data" /\ ret.key = r /\ ret.outcome = "ApiException"
       /\ data[r] # None
       /\ gd_pc[2] = "fetch" /\ gd_call[2].res = r
       /\ get_data_lock[r] = 2
       /\ {1, 2} \in gd_overlap

\* C27: the event loop processes a ProposalEvent only for a proposal id that is
\* not registered, whatever the order of the events, so the registry's sanity
\* check does not fail and the loop goes on.
C27_EventOrderRobust ==
    [][(ret'.op = "ProposalEvent" /\ ncalls' # ncalls) =>
          resources[ret'.key] = 0]_vars

\* The resource reached from k by following parent references, n at most.
RECURSIVE RootOf(_, _)
RootOf(k, n) == IF n = 0 \/ parent[k] = NoKey THEN k ELSE RootOf(parent[k], n - 1)

\* The resources that are in some children list.
ChildOf(p, c) == \E n \in 1 .. Len(children[p]) : children[p][n] = c
Attached == {k \in Keys : \E p \in Keys : ChildOf(p, k)}

\* C26: the demand reference of a Proposal, once set, is never set again, and
\* every Proposal that is in a children list has as its demand reference the
\* Demand at the root of its parent chain.
C26_DemandIsRoot ==
    /\ [](\A k \in Attached : k.kind = "Proposal" =>
             (RootOf(k, Cardinality(Keys)).kind = "Demand"
                /\ demand[k] = RootOf(k, Cardinality(Keys))))
    /\ [][\A k \in Keys : demand[k] # NoKey => demand'[k] = demand[k]]_vars

\* The demand a Proposal gets from its parent: the parent if that is a Demand,
\* else the parent's demand.
DemandOfParent(k) == IF parent[k].kind = "Demand" THEN parent[k] ELSE demand[parent[k]]

\* C26 (amended): the demand reference of a Proposal, once set, is never set
\* again, and every Proposal that is in a children list has a demand reference,
\* the one of its parent (the parent itself if that is a Demand); so it is the
\* Demand at the root of its parent chain whenever that chain ends in a Demand.
C26_DemandOfParent ==
    /\ [](\A k \in Attached : k.kind = "Proposal" =>
             /\ parent[k] # NoKey
             /\ demand[k] # NoKey
             /\ demand[k] = DemandOfParent(k)
             /\ RootOf(k, Cardinality(Keys)).kind \in {"Demand", "Proposal"}
             /\ RootOf(k, Cardinality(Keys)).kind = "Demand" =>
                   demand[k] = RootOf(k, Cardinality(Keys)))
    /\ [][\A k \in Keys : demand[k] # NoKey => demand'[k] = demand[k]]_vars

\* Proposal 1 came with an event of demand 1 and was answered: the new proposal
\* is its child, and both have demand 1, the root, as their demand.
C26_Witness ==
    \E n \in Ids :
       /\ children[KeyOf("Demand", 1)] = <<KeyOf("Proposal", 1)>>
       /\ children[KeyOf("Proposal", 1)] = <<KeyOf("Proposal", n)>>
       /\ demand[KeyOf("Proposal", n)] = KeyOf("Demand", 1)
       /\ demand[KeyOf("Proposal", 1)] = KeyOf("Demand", 1)
       /\ RootOf(KeyOf("Proposal", n), Cardinality(Keys)) = KeyOf("Demand", 1)
       /\ ret.op = "respond" /\ ret.outcome = "ok"

\* How often k occurs in the sequence ch.
Occurrences(ch, k) == Cardinality({i \in 1 .. Len(ch) : ch[i] = k})

\* C28: c is in the children list of p exactly if the parent of c is p; a
\* resource is in at most one children list and at most once in it; following
\* parent references from any resource never comes back to a resource.
C28_WellFormed ==
    /\ \A p \in Keys, c \in Keys : ChildOf(p, c) <=> parent[c] = p
    /\ \A c \in Keys :
          /\ \A p \in Keys : Occurrences(children[p], c) <= 1
          /\ Cardinality({p \in Keys : ChildOf(p, c)}) <= 1
    /\ \A k \in Keys : parent[RootOf(k, Cardinality(Keys))] = NoKey

\* The step is an add_child call that returned and whose child is another
\* resource, one without children.
AddsChildless ==
    /\ ret'.op = "add_child"
    /\ ncalls' # ncalls
    /\ ret'.outcome = "ok"
    /\ ret'.arg # ret'.key
    /\ children[ret'.arg] = <<>>

\* C28 (amended): a resource that is in the children list of p has p as its
\* parent, and every resource is in at most one children list and at most once
\* in it; an add_child call that returns and whose child is another resource
\* that has no children keeps the whole of C28 (the children of p are exactly
\* the resources whose parent is p, and parent references never come back).
C28_ChildrenHaveParent ==
    /\ [](\A p \in Keys, c \in Keys : ChildOf(p, c) => parent[c] = p)
    /\ [](\A c \in Keys :
             /\ \A p \in Keys : Occurrences(children[p], c) <= 1
             /\ Cardinality({p \in Keys : ChildOf(p, c)}) <= 1)
    /\ [][(C28_WellFormed /\ AddsChildless) => C28_WellFormed']_vars

\* Proposal 1 is the child of demand 1 and proposal 2 the child of proposal 1,
\* and the tree is well formed.
C28_Witness ==
    /\ children[KeyOf("Demand", 1)] = <<KeyOf("Proposal", 1)>>
    /\ children[KeyOf("Proposal", 1)] = <<KeyOf("Proposal", 2)>>
    /\ parent[KeyOf("Proposal", 2)] = KeyOf("Proposal", 1)
    /\ ret.op = "add_child" /\ ret.outcome = "ok"
    /\ C28_WellFormed

\* The step belongs to a negotiation call on proposal p.
NegotiationStep(p, ops) == ret'.op \in ops /\ ret'.key = p /\ neg_pc'[p] # neg_pc[p]

\* C30: a step of respond or create_agreement that returns has appended one
\* resource to the children of the proposal it was called on, changed no other
\* children list, and returns that resource, and the remote call had succeeded;
\* no other step of a negotiation call changes a children list or registers a
\* resource, in particular not the one in which the remote call fails, which
\* registers nothing for autoclose either; reject never adds a child.
C30_AttachOnSuccess ==
    [][\A p \in Keys :
         /\ NegotiationStep(p, {"respond", "create_agreement"}) =>
               IF ret'.outcome = "ok"
               THEN /\ neg_pc[p] \in {"counter", "agreement", "agreement_autoclose"}
                    /\ ret'.mode = "ok"
                    /\ children' = [children EXCEPT ![p] = Append(@, ret'.arg)]
                    /\ parent'[ret'.arg] = p
                    /\ ret'.arg.kind = IF ret'.op = "respond" THEN "Proposal" ELSE "Agreement"
                    /\ autoclose' \subseteq autoclose \cup {ret'.arg}
               ELSE /\ children' = children
                    /\ ret'.outcome \in {"ApiException", "ResourceNotFound"} =>
                          (resources' = resources /\ event_bus' = event_bus /\ autoclose' = autoclose
                             /\ parent' = parent)
         /\ NegotiationStep(p, {"reject"}) =>
               (children' = children /\ resources' = resources /\ parent' = parent
                  /\ autoclose' = autoclose)]_vars

\* create_agreement(autoclose=True) on a proposal got the id of the new
\* agreement: the agreement is the proposal's only child and is registered for
\* closing.
C30_Witness ==
    \E p \in Proposals, n \in Ids :
       /\ ret.op = "create_agreement" /\ ret.key = p /\ ret.outcome = "ok"
       /\ ret.arg = KeyOf("Agreement", n)
       /\ children[p] = <<KeyOf("Agreement", n)>>
       /\ autoclose = {KeyOf("Agreement", n)}
       /\ neg_pc[p] = "returned"

====
